---- MODULE Spec2Model ----
(***************************************************************************)
(* Model of the news-dashboard ingestion pipeline.                         *)
(*                                                                         *)
(* Strings the code inspects are sequences of one-character strings, so    *)
(* that substring search, tag stripping and splitting are computed.  URLs  *)
(* are sequences of lexemes (an origin+path, "?", a parameter, "&", "#",    *)
(* a fragment).  Dates are integers; an unparseable date is BadDate.       *)
(***************************************************************************)
EXTENDS Integers, Sequences, FiniteSets, TLC

\* ---------------------------------------------------------------- bounds
\* Most items one feed or API response carries.
MaxItems == 2
\* Most store operations that raise in one behaviour.
MaxFail == 1
\* Most runIngestion invocations one caller makes, one after the other.
MaxRuns == 2
\* Most admin keyword operations in one behaviour.
MaxKwOps == 2

\* An optional value is a sequence of length at most one.
Nothing == <<>>
Some(x) == <<x>>

\* new Date(str).getTime() of a string that is no date (NaN).
BadDate == -1
\* new Date() when an item carries no pubDate.
Now == 2

\* ------------------------------------------------------- generic helpers
RECURSIVE SeqSum(_)
SeqSum(s) == IF s = <<>> THEN 0 ELSE Head(s) + SeqSum(Tail(s))

Range(s) == {s[i] : i \in 1..Len(s)}

SeqsUpTo(S, n) == UNION {[1..k -> S] : k \in 0..n}

\* --------------------------------------------------------------- strings
IsWs(c) == c = " "

LowerChar(c) ==
  CASE c = "C" -> "c"
    [] c = "G" -> "g"
    [] c = "S" -> "s"
    [] c = "B" -> "b"
    [] c = "X" -> "x"
    [] OTHER   -> c

ToLowerCase(s) == [i \in 1..Len(s) |-> LowerChar(s[i])]

\* String.prototype.includes
Includes(s, sub) ==
  \E i \in 0..(Len(s) - Len(sub)) : \A j \in 1..Len(sub) : s[i + j] = sub[j]

\* ------------------------------------------------------------- keywords
\* matchKeywords: the keywords, in input order, whose lower-cased form is a
\* substring of the lower-cased text.
MatchKeywords(text, keywords) ==
  IF text = <<>> \/ keywords = <<>> THEN <<>>
  ELSE LET normalized == ToLowerCase(text)
           Hit(kw) == Includes(normalized, ToLowerCase(kw))
       IN SelectSeq(keywords, Hit)

\* ------------------------------------------------------------- sanitizer
\* input.replace(/<[^>]*>/g, ""): a "<" with a later ">" is removed up to
\* the first such ">"; a "<" that is never closed stays.
RECURSIVE StripTags(_)
StripTags(s) ==
  IF s = <<>> THEN <<>>
  ELSE IF Head(s) = "<" /\ \E j \in 2..Len(s) : s[j] = ">"
       THEN LET j == CHOOSE k \in 2..Len(s) :
                       s[k] = ">" /\ \A m \in 2..(k - 1) : s[m] # ">"
            IN StripTags(SubSeq(s, j + 1, Len(s)))
       ELSE <<Head(s)>> \o StripTags(Tail(s))

StartsWith(s, p) == Len(s) >= Len(p) /\ SubSeq(s, 1, Len(p)) = p

\* The named entities of ENTITY_MAP the model's alphabet can spell.
NamedEntities ==
  { [src |-> <<"&", "l", "t", ";">>, out |-> "<"],
    [src |-> <<"&", "g", "t", ";">>, out |-> ">"],
    [src |-> <<"&", "a", "m", "p", ";">>, out |-> "&"] }

\* The character codes the model's alphabet can spell, decimal and hex.
DecimalEntities ==
  { [src |-> <<"&", "#", "6", "0", ";">>, out |-> "<"],
    [src |-> <<"&", "#", "6", "2", ";">>, out |-> ">"] }

HexEntities ==
  { [src |-> <<"&", "#", "x", "3", "c", ";">>, out |-> "<"],
    [src |-> <<"&", "#", "x", "3", "e", ";">>, out |-> ">"] }

\* One String.replace pass over s, left to right, with the entity table E
\* (matched case-insensitively when ci).
RECURSIVE ReplaceEntities(_, _, _)
ReplaceEntities(s, E, ci) ==
  IF s = <<>> THEN <<>>
  ELSE LET t == IF ci THEN ToLowerCase(s) ELSE s
           hits == {e \in E : StartsWith(t, e.src)}
       IN IF hits # {}
          THEN LET e == CHOOSE x \in hits : TRUE
               IN <<e.out>> \o ReplaceEntities(SubSeq(s, Len(e.src) + 1, Len(s)), E, ci)
          ELSE <<Head(s)>> \o ReplaceEntities(Tail(s), E, ci)

\* decodeEntities: named entities, then decimal references, then hex ones,
\* each pass over the result of the one before.
DecodeEntities(s) ==
  ReplaceEntities(ReplaceEntities(ReplaceEntities(s, NamedEntities, TRUE),
                                  DecimalEntities, FALSE),
                  HexEntities, TRUE)

\* .replace(/\s+/g, " ")
RECURSIVE CollapseWs(_)
CollapseWs(s) ==
  IF s = <<>> THEN <<>>
  ELSE IF IsWs(Head(s)) /\ Len(s) > 1 /\ IsWs(s[2]) THEN CollapseWs(Tail(s))
       ELSE <<Head(s)>> \o CollapseWs(Tail(s))

\* .trim()
RECURSIVE Trim(_)
Trim(s) ==
  IF s = <<>> THEN <<>>
  ELSE IF IsWs(Head(s)) THEN Trim(Tail(s))
       ELSE IF IsWs(s[Len(s)]) THEN Trim(SubSeq(s, 1, Len(s) - 1))
            ELSE s

SanitizeText(input) ==
  IF input = <<>> THEN <<>>
  ELSE Trim(CollapseWs(DecodeEntities(StripTags(input))))

\* The snippet budget of both adapters (500 in the code), scaled to the
\* model's short strings.
SnippetMax == 4

\* The one character U+2026 that sanitizeAndTruncate appends.
Ellipsis == "..."

SanitizeAndTruncate(input, maxLength) ==
  LET clean == SanitizeText(input)
  IN IF Len(clean) <= maxLength THEN clean
     ELSE Trim(SubSeq(clean, 1, maxLength)) \o <<Ellipsis>>

\* ------------------------------------------------------------------ URLs
\* The lexemes that open an absolute URL ("https://host/path"); new URL()
\* throws on anything else.
Origins == {"https://ex.com/a", "https://ex.com/b", "https://www.ex.org/c"}

IsParseableUrl(url) == url # <<>> /\ url[1] \in Origins

\* new URL(u).hostname.replace(/^www\./, "")
Hostname(url) == IF url[1] = "https://www.ex.org/c" THEN "ex.org" ELSE "ex.com"

\* The lower-cased key of a query parameter lexeme.
ParamKeyLower(lex) ==
  CASE lex = "utm_source=x" -> "utm_source"
    [] lex = "UTM_Medium=y" -> "utm_medium"
    [] lex = "id=5"         -> "id"
    [] OTHER                -> lex

TRACKING_PARAMS ==
  { "utm_source", "utm_medium", "utm_campaign", "utm_content", "utm_term", "utm_id",
    "fbclid", "gclid", "_ga", "_gl", "ref", "mc_cid", "mc_eid", "yclid", "msclkid",
    "igshid", "twclid", "s_kwcid", "hsa_acc", "hsa_cam", "hsa_grp", "hsa_ad",
    "hsa_src", "hsa_tgt", "hsa_kw", "hsa_mt", "hsa_net", "hsa_ver" }

\* Index of the first occurrence of lexeme x in s, or Len(s) + 1.
FirstIndex(s, x) ==
  IF \E i \in 1..Len(s) : s[i] = x
  THEN CHOOSE i \in 1..Len(s) : s[i] = x /\ \A j \in 1..(i - 1) : s[j] # x
  ELSE Len(s) + 1

RECURSIVE JoinParams(_)
JoinParams(ps) ==
  IF ps = <<>> THEN <<>>
  ELSE IF Len(ps) = 1 THEN ps
       ELSE <<Head(ps), "&">> \o JoinParams(Tail(ps))

\* (mutant) the key is compared with the deny-list without lower-casing.
NormalizeUrl_CaseSensitive(rawUrl) ==
  IF ~IsParseableUrl(rawUrl) THEN rawUrl
  ELSE LET noHash == SubSeq(rawUrl, 1, FirstIndex(rawUrl, "#") - 1)
           q      == FirstIndex(noHash, "?")
           path   == SubSeq(noHash, 1, q - 1)
           search == SubSeq(noHash, q + 1, Len(noHash))
           IsParam(l) == l # "&" /\ l # "?"
           Kept(l) == l = "UTM_Medium=y" \/ ParamKeyLower(l) \notin TRACKING_PARAMS
           all    == SelectSeq(search, IsParam)
           params == SelectSeq(all, Kept)
       IN IF params = all THEN noHash
          ELSE IF params = <<>> THEN path ELSE path \o <<"?">> \o JoinParams(params)

\* normalizeUrl: an unparseable input is returned unchanged; otherwise the
\* fragment is removed and every tracking parameter is deleted.  The query
\* is serialized anew only when a parameter was deleted; else it stays as
\* it was written (a bare "?" included).
NormalizeUrl(rawUrl) ==
  IF ~IsParseableUrl(rawUrl) THEN rawUrl
  ELSE LET noHash == SubSeq(rawUrl, 1, FirstIndex(rawUrl, "#") - 1)
           q      == FirstIndex(noHash, "?")
           path   == SubSeq(noHash, 1, q - 1)
           search == SubSeq(noHash, q + 1, Len(noHash))
           IsParam(l) == l # "&" /\ l # "?"
           Kept(l) == ParamKeyLower(l) \notin TRACKING_PARAMS
           all    == SelectSeq(search, IsParam)
           params == SelectSeq(all, Kept)
       IN IF params = all THEN noHash
          ELSE IF params = <<>> THEN path ELSE path \o <<"?">> \o JoinParams(params)

\* String.prototype.split("?")
RECURSIVE SplitQ(_)
SplitQ(url) ==
  LET q == FirstIndex(url, "?")
  IN IF q > Len(url) THEN <<url>>
     ELSE <<SubSeq(url, 1, q - 1)>> \o SplitQ(SubSeq(url, q + 1, Len(url)))

\* ----------------------------------------------------------- RSS adapter
\* extractString(a) || extractString(b)
OrElse(a, b) == IF a # <<>> THEN a ELSE b

\* (mutant) the upper bound of the date range is not applied.
ParseRssItem_NoUpperBound(item, config, options) ==
  LET title       == SanitizeText(item.title)
      url         == OrElse(item.link, item.guid)
      snippet     == SanitizeAndTruncate(item.description, SnippetMax)
      publishedAt == IF item.pubDate # Nothing THEN item.pubDate[1] ELSE Now
      matched     == MatchKeywords(title \o <<" ">> \o snippet, options.keywords)
  IN IF title = <<>> \/ url = <<>> THEN Nothing
     ELSE IF publishedAt = BadDate THEN Nothing
     ELSE IF options.from # Nothing /\ publishedAt < options.from[1] THEN Nothing
     ELSE IF matched = <<>> THEN Nothing
     ELSE Some([ title |-> title, url |-> url, outlet |-> config.outlet,
                 outletDomain |-> config.domain, publishedAt |-> publishedAt,
                 snippet |-> snippet, source |-> "RSS" ])

\* parseRssItem: the candidate of one feed item, or nothing when the item
\* is dropped.
ParseRssItem(item, config, options) ==
  LET title       == SanitizeText(item.title)
      url         == OrElse(item.link, item.guid)
      snippet     == SanitizeAndTruncate(item.description, SnippetMax)
      publishedAt == IF item.pubDate # Nothing THEN item.pubDate[1] ELSE Now
      searchText  == title \o <<" ">> \o snippet
      matched     == MatchKeywords(searchText, options.keywords)
  IN IF title = <<>> \/ url = <<>> THEN Nothing
     ELSE IF publishedAt = BadDate THEN Nothing
     ELSE IF options.from # Nothing /\ publishedAt < options.from[1] THEN Nothing
     ELSE IF options.to # Nothing /\ publishedAt > options.to[1] THEN Nothing
     ELSE IF matched = <<>> THEN Nothing
     ELSE Some([ title        |-> title,
                 url          |-> SplitQ(url)[1] \o
                                  (IF \E i \in 1..Len(url) : url[i] = "?"
                                   THEN <<"?">> \o SplitQ(url)[2] ELSE <<>>),
                 outlet       |-> config.outlet,
                 outletDomain |-> config.domain,
                 publishedAt  |-> publishedAt,
                 snippet      |-> snippet,
                 source       |-> "RSS" ])

RECURSIVE ParseRssItems(_, _, _)
ParseRssItems(items, config, options) ==
  IF items = <<>> THEN <<>>
  ELSE ParseRssItem(Head(items), config, options)
         \o ParseRssItems(Tail(items), config, options)

\* fetchRssFeed on one outcome of the HTTP fetch: the items of a parsed
\* feed, a non-2xx status, a network error or timeout, or a body with no
\* channel/feed element.  Every failure is returned, never raised.
FetchRssFeed(config, options, outcome) ==
  CASE outcome.kind = "http" ->
         [articles |-> <<>>, rawFetched |-> 0,
          error |-> Some(<<"HTTP error from", config.url>>)]
    [] outcome.kind = "nochannel" ->
         [articles |-> <<>>, rawFetched |-> 0,
          error |-> Some(<<"No channel/feed element found in", config.url>>)]
    [] outcome.kind = "network" ->
         [articles |-> <<>>, rawFetched |-> 0,
          error |-> Some(<<"Failed to fetch", config.url>>)]
    [] OTHER ->
         [articles   |-> ParseRssItems(outcome.items, config, options),
          rawFetched |-> Len(outcome.items),
          error      |-> Nothing]

\* The feeds of prisma/rss-feeds.json.
FeedFile ==
  << [name |-> "Feed A", url |-> "https://a.example/rss", outlet |-> "A",
      domain |-> "a.example", enabled |-> TRUE],
     [name |-> "Feed off", url |-> "https://off.example/rss", outlet |-> "Off",
      domain |-> "off.example", enabled |-> FALSE],
     [name |-> "Feed B", url |-> "https://b.example/rss", outlet |-> "B",
      domain |-> "b.example", enabled |-> TRUE] >>

\* The same file with Feed B switched off.
OneFeedFile ==
  [i \in 1..Len(FeedFile) |->
     IF FeedFile[i].name = "Feed B" THEN [FeedFile[i] EXCEPT !.enabled = FALSE]
     ELSE FeedFile[i]]

\* loadFeedConfigs: the enabled feeds, in file order.
LoadFeedConfigs(file) ==
  LET Enabled(f) == f.enabled IN SelectSeq(file, Enabled)

\* ------------------------------------------------------ News API adapter
\* (mutant) the separators are not counted against the budget.
RECURSIVE BuildOrQueryFrom_NoSep(_, _, _, _)
BuildOrQueryFrom_NoSep(keywords, budgetChars, parts, used) ==
  IF keywords = <<>> THEN parts
  ELSE LET part == Len(Head(keywords)) + 2
       IN IF used + part > budgetChars THEN parts
          ELSE BuildOrQueryFrom_NoSep(Tail(keywords), budgetChars,
                                      Append(parts, Head(keywords)), used + part)

\* buildOrQuery: the keywords of the longest prefix whose quoted phrases,
\* joined by " OR ", fit in budgetChars.
RECURSIVE BuildOrQueryFrom(_, _, _, _)
BuildOrQueryFrom(keywords, budgetChars, parts, used) ==
  IF keywords = <<>> THEN parts
  ELSE LET part == Len(Head(keywords)) + 2
           sep  == IF Len(parts) > 0 THEN 4 ELSE 0
       IN IF used + sep + part > budgetChars THEN parts
          ELSE BuildOrQueryFrom(Tail(keywords), budgetChars,
                                Append(parts, Head(keywords)), used + sep + part)

BuildOrQuery(keywords, budgetChars) ==
  LET parts == BuildOrQueryFrom(keywords, budgetChars, <<>>, 0)
  IN [query |-> parts, included |-> Len(parts)]

NewsApiBudget == 490
NewsdataBudget == 500

\* The title newsapi.org gives a retracted article.
Removed == <<"[", "R", "]">>

\* The per-item loop of fetchFromNewsApi / fetchFromNewsdata.
ParseApiItem(a, provider, options) ==
  LET title       == SanitizeText(a.title)
      snippet     == SanitizeAndTruncate(a.description, SnippetMax)
      publishedAt == a.publishedAt
  IN IF a.title = <<>> \/ a.url = <<>> THEN Nothing
     ELSE IF provider = "newsapi" /\ a.title = Removed THEN Nothing
     ELSE IF title = <<>> THEN Nothing
     ELSE IF publishedAt = BadDate THEN Nothing
     ELSE IF options.from # Nothing /\ publishedAt < options.from[1] THEN Nothing
     ELSE IF options.to # Nothing /\ publishedAt > options.to[1] THEN Nothing
     ELSE IF MatchKeywords(title \o <<" ">> \o snippet, options.keywords) = <<>>
          THEN Nothing
     ELSE IF provider = "newsapi" /\ ~IsParseableUrl(a.url) THEN Nothing
     ELSE Some([ title        |-> title,
                 url          |-> a.url,
                 outlet       |-> a.sourceName,
                 outletDomain |-> IF IsParseableUrl(a.url) THEN Hostname(a.url)
                                  ELSE a.sourceName,
                 publishedAt  |-> publishedAt,
                 snippet      |-> snippet,
                 source       |-> "NEWS_API" ])

RECURSIVE ParseApiItems(_, _, _)
ParseApiItems(items, provider, options) ==
  IF items = <<>> THEN <<>>
  ELSE ParseApiItem(Head(items), provider, options)
         \o ParseApiItems(Tail(items), provider, options)

\* fetchFromNewsApi_Adapter on one outcome of the provider call.  apiCfg is
\* "none" when NEWS_API_KEY is unset, else the provider's name.
FetchFromNewsApi_Adapter(apiCfg, options, outcome) ==
  IF apiCfg = "none" THEN [articles |-> <<>>, rawFetched |-> 0, error |-> Nothing]
  ELSE LET budget == IF apiCfg = "newsdata" THEN NewsdataBudget ELSE NewsApiBudget
           q == BuildOrQuery(options.keywords, budget)
       IN IF q.query = <<>>
          THEN [articles |-> <<>>, rawFetched |-> 0, error |-> Nothing]
          ELSE IF outcome.kind # "ok"
               THEN [articles |-> <<>>, rawFetched |-> 0,
                     error |-> Some(<<apiCfg, outcome.kind>>)]
               ELSE [articles   |-> ParseApiItems(outcome.items, apiCfg, options),
                     rawFetched |-> Len(outcome.items),
                     error      |-> Nothing]

\* ------------------------------------------------------------ the inputs
\* DEFAULT_KEYWORDS (two terms stand for the eleven of the code).
DEFAULT_KEYWORDS == << <<"C", "G">>, <<"s", "b">> >>

\* A term an admin may add.
AdminTerm == <<"x">>

UrlA == <<"https://ex.com/a">>
UrlATracked == <<"https://ex.com/a", "?", "utm_source=x">>
UrlAFragment == <<"https://ex.com/a", "#", "top">>
UrlB == <<"https://ex.com/b">>
UrlC == <<"https://www.ex.org/c">>

RssItem(title, link, description, pubDate) ==
  [title |-> title, link |-> link, guid |-> <<>>, description |-> description,
   pubDate |-> pubDate]

\* What each enabled feed may carry.
FeedItems(config) ==
  IF config.name = "Feed A"
  THEN { RssItem(<<"<", "i", ">", "c", "g">>, UrlA, <<>>, Some(1)),
         RssItem(<<"n", "o">>, UrlB, <<"s", "b">>, Some(0)) }
  ELSE { RssItem(<<"S", "B">>, UrlATracked, <<>>, Some(1)),
         RssItem(<<"C", "G">>, UrlA, <<>>, Nothing) }

ApiItem(title, url, description, publishedAt) ==
  [title |-> title, url |-> url, description |-> description,
   publishedAt |-> publishedAt, sourceName |-> "Wire"]

\* What the news API may answer.
ApiItems ==
  { ApiItem(<<"c", "g", " ", "s", "b">>, UrlAFragment, <<>>, 1),
    ApiItem(<<"x">>, UrlC, <<>>, 1) }

\* The outcomes of one feed fetch.
RssOutcomes(config) ==
  {[kind |-> "ok", items |-> b] : b \in SeqsUpTo(FeedItems(config), MaxItems)}
    \cup {[kind |-> k, items |-> <<>>] : k \in {"http", "network", "nochannel"}}

\* The outcomes of one provider call.
ApiOutcomes ==
  {[kind |-> "ok", items |-> b] : b \in SeqsUpTo(ApiItems, MaxItems)}
    \cup {[kind |-> "error", items |-> <<>>]}

\* The date windows a caller may pass (resolveRange).
OptionSets == { [from |-> Nothing, to |-> Nothing], [from |-> Some(1), to |-> Some(Now)] }

\* ----------------------------------------------------------------- state
VARIABLES
  articles,     \* Article table: a sequence, the id of a row is its index
  auditLog,     \* AuditLog table
  ingestRuns,   \* IngestRun table
  keywordRows,  \* Keyword table, in createdAt order
  apiCfg,       \* "none" (NEWS_API_KEY unset) or NEWS_API_PROVIDER
  feedFile,     \* the content of prisma/rss-feeds.json
  fails,        \* store operations that raised so far
  kwOps,        \* admin keyword operations so far
  served,       \* what each source has served, once it was fetched
  run,          \* per invocation of runIngestion: its position and locals
  limiter,      \* the store of rate-limit.ts: identifier -> entry
  clock,        \* Date.now()
  callLog,      \* history: every rateLimit call, read by the properties only
  last,         \* history: the last HTTP exchange or library call and its result
  adminOps      \* requests to the article routes so far

\* The state of the web routes, which runIngestion leaves alone.
webVars == <<limiter, clock, callLog, last, adminOps>>

\* The state of the ingestion pipeline, which the article routes leave alone.
ingestVars == <<ingestRuns, keywordRows, apiCfg, feedFile, fails, kwOps, served, run>>

vars == <<articles, auditLog, ingestRuns, keywordRows, apiCfg, feedFile, fails, kwOps,
          served, run, webVars>>

\* The sources a run fetches: the feeds of the file and the news API.
Sources == {FeedFile[i].name : i \in 1..Len(FeedFile)} \cup {"News API"}

\* The callers that may invoke runIngestion (cron and the admin trigger).
Procs == {"cron", "admin"}

IdleRun ==
  [ pc |-> "idle", runNo |-> 0, options |-> [from |-> Nothing, to |-> Nothing],
    seedIdx |-> 0, keywords |-> <<>>, feeds |-> <<>>, feedIdx |-> 0,
    phase |-> "RSS", runId |-> 0, res |-> [articles |-> <<>>, rawFetched |-> 0, error |-> Nothing],
    idx |-> 0, matched |-> <<>>, createdId |-> 0, created |-> 0, duped |-> 0,
    keywordHits |-> <<>>, allKeywordHits |-> <<>>, results |-> <<>>,
    summary |-> <<>>,
    \* history of this invocation, read by the properties only
    outcomes |-> <<>>, cands |-> <<>>, inserted |-> <<>>, loaded |-> <<>>, kwDown |-> FALSE,
    failed |-> 0,
    failedRun |-> 0, prev |-> <<>> ]

\* No request was made yet.
NoExchange == [kind |-> "none"]

\* The identifiers the routes pass to rateLimit: "url-fetch:<email>" of the
\* admin and the x-forwarded-for address of an ingest trigger.
RateIds == {"url-fetch:admin@x", "10.0.0.1"}

InitWeb ==
  /\ limiter = [id \in RateIds |-> Nothing]
  /\ clock = 0
  /\ callLog = <<>>
  /\ last = NoExchange
  /\ adminOps = 0

InitStore ==
  /\ InitWeb
  /\ articles = <<>>
  /\ auditLog = <<>>
  /\ ingestRuns = <<>>
  /\ keywordRows = <<>>
  /\ fails = 0
  /\ kwOps = 0
  /\ served = [s \in Sources |-> Nothing]
  /\ run = [p \in Procs |-> IdleRun]

Init ==
  /\ InitStore
  /\ feedFile = FeedFile
  /\ apiCfg \in {"none", "newsapi", "newsdata"}

\* One enabled feed and no API key.
InitConc ==
  /\ InitStore
  /\ feedFile = OneFeedFile
  /\ apiCfg = "none"

\* One enabled feed and newsapi.org.
InitKw ==
  /\ InitStore
  /\ feedFile = OneFeedFile
  /\ apiCfg = "newsapi"

\* ------------------------------------------------------- keyword store
HasTerm(rows, term) == \E i \in 1..Len(rows) : rows[i].term = term

\* prisma.keyword.upsert({where: {term}, update: {}, create: {term, enabled: true}})
UpsertDefault(rows, term) ==
  IF HasTerm(rows, term) THEN rows
  ELSE Append(rows, [term |-> term, enabled |-> TRUE])

\* findMany({where: {enabled: true}, orderBy: {createdAt: "asc"}}).map(r => r.term)
EnabledTerms(rows) ==
  LET Enabled(r) == r.enabled
      on == SelectSeq(rows, Enabled)
  IN [i \in 1..Len(on) |-> on[i].term]

\* ------------------------------------------------------- persistArticles
\* (mutant) the lookup never finds a stored row.
FindUnique_Never(rows, url) == {}

\* prisma.article.findUnique({where: {url}}): the ids of the rows with
\* exactly this url.
FindUnique(rows, url) == {i \in 1..Len(rows) : rows[i].url = url}

\* (mutant) the table has no unique index on url.
UniqueViolation_Off(rows, url) == FALSE

\* The unique index Article_url_key rejects an insert of a stored url.
UniqueViolation(rows, url) == \E i \in 1..Len(rows) : rows[i].url = url

NewArticle(article, matched) ==
  [ title |-> article.title, url |-> article.url, outlet |-> article.outlet,
    keywordsMatched |-> matched, snippet |-> article.snippet,
    manualSummary |-> Nothing, status |-> "QUEUED", ingestSource |-> article.source ]

\* (mutant) the duplicate branch overwrites the stored row, as an upsert would.
OnDuplicate_Update(rows, id, article, matched) ==
  [rows EXCEPT ![id] = NewArticle(article, matched)]

\* The duplicate branch of persistArticles leaves the stored row alone.
OnDuplicate(rows, id, article, matched) == rows

IngestedEntry(id, article) ==
  [ articleId |-> id, action |-> "INGESTED", actorEmail |-> "system@ingestion",
    source |-> article.source, url |-> article.url ]

\* keywordHits[kw] = (keywordHits[kw] ?? 0) + n, keys in insertion order.
AddHit(hits, kw, n) ==
  IF \E i \in 1..Len(hits) : hits[i].term = kw
  THEN [i \in 1..Len(hits) |->
          IF hits[i].term = kw THEN [hits[i] EXCEPT !.count = @ + n] ELSE hits[i]]
  ELSE Append(hits, [term |-> kw, count |-> n])

RECURSIVE AddHits(_, _)
AddHits(hits, matched) ==
  IF matched = <<>> THEN hits
  ELSE AddHits(AddHit(hits, Head(matched), 1), Tail(matched))

RECURSIVE MergeHits(_, _)
MergeHits(all, hits) ==
  IF hits = <<>> THEN all
  ELSE MergeHits(AddHit(all, Head(hits).term, Head(hits).count), Tail(hits))

\* (mutant) the stats are returned in insertion order.
SortStats_Unsorted(hits) == hits

\* .sort((a, b) => b.count - a.count): stable, larger counts first.
RECURSIVE InsertByCount(_, _)
InsertByCount(sorted, e) ==
  IF sorted = <<>> THEN <<e>>
  ELSE IF Head(sorted).count >= e.count
       THEN <<Head(sorted)>> \o InsertByCount(Tail(sorted), e)
       ELSE <<e>> \o sorted

RECURSIVE SortStats(_)
SortStats(hits) ==
  IF hits = <<>> THEN <<>>
  ELSE InsertByCount(SortStats(SubSeq(hits, 1, Len(hits) - 1)), hits[Len(hits)])

\* The loop of persistArticles moves to the next candidate, or returns.
NextCandidate(r) ==
  IF r.idx < Len(r.res.articles)
  THEN [r EXCEPT !.idx = r.idx + 1, !.pc = "lookup"]
  ELSE [r EXCEPT !.idx = r.idx + 1, !.pc = "finalize"]

\* (mutant) the error leaves the loop: the rest of the batch is skipped.
CatchPersist_Abort(r) ==
  [r EXCEPT !.failed = r.failed + 1, !.failedRun = r.failedRun + 1, !.pc = "finalize"]

\* (mutant) the catch counts the failed candidate as a duplicate.
CatchPersist_CountsDuped(r) ==
  NextCandidate([r EXCEPT !.failed = r.failed + 1, !.failedRun = r.failedRun + 1,
                          !.duped = r.duped + 1])

\* The catch block of persistArticles: the error is logged and the loop
\* goes on with the next candidate.
CatchPersist(r) ==
  NextCandidate([r EXCEPT !.failed = r.failed + 1, !.failedRun = r.failedRun + 1])

\* ------------------------------------------------------------ runIngestion
Set(p, r) == run' = [run EXCEPT ![p] = r]

\* A caller invokes runIngestion(options).
Start(p) ==
  /\ run[p].pc = "idle"
  /\ \E o \in OptionSets :
       Set(p, [run[p] EXCEPT !.pc = "seed", !.runNo = 1, !.options = o, !.seedIdx = 1])
  /\ UNCHANGED <<articles, auditLog, ingestRuns, keywordRows, apiCfg, feedFile, fails,
                 kwOps, served, webVars>>

\* getTrackedKeywords, one upsert of seedDefaultKeywords.
SeedStep(p) ==
  /\ run[p].pc = "seed"
  /\ keywordRows' = UpsertDefault(keywordRows, DEFAULT_KEYWORDS[run[p].seedIdx])
  /\ Set(p, [run[p] EXCEPT
               !.seedIdx = @ + 1,
               !.pc = IF run[p].seedIdx < Len(DEFAULT_KEYWORDS) THEN "seed" ELSE "findMany"])
  /\ UNCHANGED <<articles, auditLog, ingestRuns, apiCfg, feedFile, fails, kwOps, served,
                 webVars>>

\* The phase and position after the keyword list and the feed list are
\* loaded, and after each adapter is finalized.
FirstAdapter(r) ==
  IF r.feeds # <<>> THEN [r EXCEPT !.phase = "RSS", !.feedIdx = 1, !.pc = "createRun"]
  ELSE [r EXCEPT !.phase = "API", !.pc = "createRun"]

\* getTrackedKeywords' findMany, then loadFeedConfigs.
LoadKeywords(p) ==
  /\ run[p].pc = "findMany"
  /\ Set(p, FirstAdapter([run[p] EXCEPT !.keywords = EnabledTerms(keywordRows),
                                       !.loaded = EnabledTerms(keywordRows),
                                       !.feeds = LoadFeedConfigs(feedFile),
                                       !.allKeywordHits = <<>>,
                                       !.results = <<>>]))
  /\ UNCHANGED <<articles, auditLog, ingestRuns, keywordRows, apiCfg, feedFile, fails,
                 kwOps, served, webVars>>

\* (mutant) the error of the keyword store leaves getTrackedKeywords.
KeywordFallback_Throw(r) == [r EXCEPT !.pc = "thrown", !.kwDown = TRUE]

\* The catch of getTrackedKeywords: return DEFAULT_KEYWORDS; runIngestion
\* goes on to loadFeedConfigs with that list.
KeywordFallback(r) ==
  FirstAdapter([r EXCEPT !.keywords = DEFAULT_KEYWORDS,
                         !.loaded = DEFAULT_KEYWORDS,
                         !.kwDown = TRUE,
                         !.feeds = LoadFeedConfigs(feedFile),
                         !.allKeywordHits = <<>>,
                         !.results = <<>>])

\* An upsert of seedDefaultKeywords or the findMany raises (store down).
KeywordStoreFails(p) ==
  /\ run[p].pc \in {"seed", "findMany"}
  /\ fails < MaxFail
  /\ fails' = fails + 1
  /\ Set(p, KeywordFallback(run[p]))
  /\ UNCHANGED <<articles, auditLog, ingestRuns, keywordRows, apiCfg, feedFile, kwOps,
                 served, webVars>>

NewIngestRun(r) ==
  [ source |-> IF r.phase = "RSS" THEN "RSS" ELSE "NEWS_API",
    feedUrl |-> IF r.phase = "RSS" THEN Some(r.feeds[r.feedIdx].url) ELSE Nothing,
    owner |-> <<r.runNo>>, finished |-> FALSE,
    articlesFound |-> 0, articlesCreated |-> 0, articlesDuped |-> 0,
    error |-> Nothing ]

\* prisma.ingestRun.create
CreateIngestRun(p) ==
  /\ run[p].pc = "createRun"
  /\ ingestRuns' = Append(ingestRuns, [NewIngestRun(run[p]) EXCEPT !.owner = <<p, run[p].runNo>>])
  /\ Set(p, [run[p] EXCEPT !.runId = Len(ingestRuns) + 1, !.pc = "fetch"])
  /\ UNCHANGED <<articles, auditLog, keywordRows, apiCfg, feedFile, fails, kwOps, served,
                 webVars>>

\* (mutant) each adapter call reads the keyword table again.
AdapterOptions_Live(r) ==
  [keywords |-> EnabledTerms(keywordRows), from |-> r.options.from, to |-> r.options.to]

AdapterOptions(r) ==
  [keywords |-> r.keywords, from |-> r.options.from, to |-> r.options.to]

\* The adapter's result becomes `articles`, and persistArticles starts.
BeginPersist(r, res, outcome) ==
  LET r1 == [r EXCEPT !.res = res, !.idx = 1, !.created = 0, !.duped = 0,
                      !.keywordHits = <<>>, !.failed = 0,
                      !.outcomes = Append(r.outcomes, outcome),
                      !.cands = r.cands \o res.articles]
  IN [r1 EXCEPT !.pc = IF res.articles = <<>> THEN "finalize" ELSE "lookup"]

\* A source keeps serving what it served first: the behaviours cover the
\* time in which the feeds and the API do not change.
Serves(source, outcome) ==
  IF served[source] = Nothing THEN TRUE ELSE outcome = served[source][1]

\* fetchRssFeed(feed, {keywords, from, to})
FetchRss(p) ==
  /\ run[p].pc = "fetch"
  /\ run[p].phase = "RSS"
  /\ LET config == run[p].feeds[run[p].feedIdx]
     IN \E outcome \in RssOutcomes(config) :
          /\ Serves(config.name, outcome)
          /\ served' = [served EXCEPT ![config.name] = Some(outcome)]
          /\ Set(p, BeginPersist(run[p],
                                 FetchRssFeed(config, AdapterOptions(run[p]), outcome),
                                 outcome))
  /\ UNCHANGED <<articles, auditLog, ingestRuns, keywordRows, apiCfg, feedFile, fails, kwOps,
                 webVars>>

\* fetchFromNewsApi_Adapter({keywords, from, to})
FetchApi(p) ==
  /\ run[p].pc = "fetch"
  /\ run[p].phase = "API"
  /\ \E outcome \in ApiOutcomes :
       /\ Serves("News API", outcome)
       /\ IF apiCfg = "none" THEN outcome = [kind |-> "ok", items |-> <<>>] ELSE TRUE
       /\ served' = [served EXCEPT !["News API"] = Some(outcome)]
       /\ Set(p, BeginPersist(run[p],
                              FetchFromNewsApi_Adapter(apiCfg, AdapterOptions(run[p]), outcome),
                              outcome))
  /\ UNCHANGED <<articles, auditLog, ingestRuns, keywordRows, apiCfg, feedFile, fails, kwOps,
                 webVars>>

Candidate(r) == r.res.articles[r.idx]

\* matchKeywords, then findUnique: a stored url counts a duplicate.
Lookup(p) ==
  /\ run[p].pc = "lookup"
  /\ LET article == Candidate(run[p])
         matched == MatchKeywords(article.title \o <<" ">> \o article.snippet,
                                  run[p].keywords)
         r == [run[p] EXCEPT !.matched = matched]
         existing == FindUnique(articles, article.url)
     IN IF existing # {}
        THEN /\ Set(p, NextCandidate([r EXCEPT !.duped = @ + 1]))
             /\ articles' = OnDuplicate(articles, CHOOSE i \in existing : TRUE,
                                        article, matched)
        ELSE /\ Set(p, [r EXCEPT !.pc = "create"])
             /\ UNCHANGED articles
  /\ UNCHANGED <<auditLog, ingestRuns, keywordRows, apiCfg, feedFile, fails, kwOps, served,
                 webVars>>

\* prisma.article.create: the unique index on url rejects a second row.
Create(p) ==
  /\ run[p].pc = "create"
  /\ LET article == Candidate(run[p])
     IN IF UniqueViolation(articles, article.url)
        THEN /\ Set(p, CatchPersist(run[p]))
             /\ UNCHANGED articles
        ELSE /\ articles' = Append(articles, NewArticle(article, run[p].matched))
             /\ Set(p, [run[p] EXCEPT !.createdId = Len(articles) + 1,
                                      !.inserted = Append(@, Len(articles) + 1),
                                      !.pc = "audit"])
  /\ UNCHANGED <<auditLog, ingestRuns, keywordRows, apiCfg, feedFile, fails, kwOps, served,
                 webVars>>

\* writeAuditLog, then the keyword hits and created++.
Audit(p) ==
  /\ run[p].pc = "audit"
  /\ auditLog' = Append(auditLog, IngestedEntry(run[p].createdId, Candidate(run[p])))
  /\ Set(p, NextCandidate([run[p] EXCEPT
                             !.keywordHits = AddHits(@, run[p].matched),
                             !.created = @ + 1]))
  /\ UNCHANGED <<articles, ingestRuns, keywordRows, apiCfg, feedFile, fails, kwOps, served,
                 webVars>>

\* A store operation of persistArticles raises (connection error).
StoreFails(p) ==
  /\ run[p].pc \in {"lookup", "create", "audit"}
  /\ fails < MaxFail
  /\ fails' = fails + 1
  /\ Set(p, CatchPersist(run[p]))
  /\ UNCHANGED <<articles, auditLog, ingestRuns, keywordRows, apiCfg, feedFile, kwOps,
                 served, webVars>>

ResultEntry(r) ==
  [ source |-> IF r.phase = "RSS" THEN r.feeds[r.feedIdx].name ELSE "News API",
    articlesRaw |-> r.res.rawFetched,
    articlesFound |-> Len(r.res.articles),
    articlesCreated |-> r.created,
    articlesDuped |-> r.duped,
    errors |-> IF r.res.error # Nothing THEN <<r.res.error[1]>> ELSE <<>> ]

\* results.push(...), unless the API adapter is disabled and gave no error.
PushResult(r, cfg) ==
  IF r.phase = "RSS" \/ cfg # "none" \/ r.res.error # Nothing
  THEN Append(r.results, ResultEntry(r))
  ELSE r.results

\* (mutant) an adapter error ends the run.
NextAdapter_AbortOnError(r) ==
  IF r.res.error # Nothing THEN [r EXCEPT !.pc = "summary"]
  ELSE IF r.phase = "RSS" /\ r.feedIdx < Len(r.feeds)
       THEN [r EXCEPT !.feedIdx = @ + 1, !.pc = "createRun"]
       ELSE IF r.phase = "RSS" THEN [r EXCEPT !.phase = "API", !.pc = "createRun"]
            ELSE [r EXCEPT !.pc = "summary"]

NextAdapter(r) ==
  IF r.phase = "RSS" /\ r.feedIdx < Len(r.feeds)
  THEN [r EXCEPT !.feedIdx = @ + 1, !.pc = "createRun"]
  ELSE IF r.phase = "RSS" THEN [r EXCEPT !.phase = "API", !.pc = "createRun"]
       ELSE [r EXCEPT !.pc = "summary"]

FinalizedRun(row, r) ==
  [row EXCEPT !.finished = TRUE,
              !.articlesFound = Len(r.res.articles),
              !.articlesCreated = r.created,
              !.articlesDuped = r.duped,
              !.error = r.res.error]

\* The hits are merged, prisma.ingestRun.update, results.push.
Finalize(p) ==
  /\ run[p].pc = "finalize"
  /\ ingestRuns' = [ingestRuns EXCEPT ![run[p].runId] = FinalizedRun(@, run[p])]
  /\ Set(p, NextAdapter([run[p] EXCEPT
                           !.allKeywordHits = MergeHits(@, run[p].keywordHits),
                           !.results = PushResult(run[p], apiCfg)]))
  /\ UNCHANGED <<articles, auditLog, keywordRows, apiCfg, feedFile, fails, kwOps, served,
                 webVars>>

Field(results, f) == [i \in 1..Len(results) |-> results[i][f]]

Summary(r) ==
  [ results |-> r.results,
    totalFound |-> SeqSum(Field(r.results, "articlesFound")),
    totalCreated |-> SeqSum(Field(r.results, "articlesCreated")),
    totalDuped |-> SeqSum(Field(r.results, "articlesDuped")),
    keywordStats |-> SortStats(r.allKeywordHits) ]

\* The totals, the sorted keyword stats, return.
Summarize(p) ==
  /\ run[p].pc = "summary"
  /\ Set(p, [run[p] EXCEPT !.summary = Some(Summary(run[p])), !.pc = "done"])
  /\ UNCHANGED <<articles, auditLog, ingestRuns, keywordRows, apiCfg, feedFile, fails,
                 kwOps, served, webVars>>

\* The caller repeats its call with the same options; what the finished
\* invocation returned and left in the store is kept for the properties.
Reinvoke(p) ==
  /\ run[p].pc = "done"
  /\ run[p].runNo < MaxRuns
  /\ Set(p, [IdleRun EXCEPT
               !.pc = "seed", !.seedIdx = 1, !.runNo = run[p].runNo + 1,
               !.options = run[p].options,
               !.prev = Some([ cands |-> run[p].cands,
                               summary |-> run[p].summary[1],
                               failedRun |-> run[p].failedRun,
                               articles |-> articles,
                               auditLog |-> auditLog ])])
  /\ UNCHANGED <<articles, auditLog, ingestRuns, keywordRows, apiCfg, feedFile, fails,
                 kwOps, served, webVars>>

RunStep(p) ==
  \/ Start(p)
  \/ SeedStep(p)
  \/ LoadKeywords(p)
  \/ CreateIngestRun(p)
  \/ FetchRss(p)
  \/ FetchApi(p)
  \/ Lookup(p)
  \/ Create(p)
  \/ Audit(p)
  \/ Finalize(p)
  \/ Summarize(p)

\* One caller, a reliable store; the call may be repeated.
Next == RunStep("cron") \/ Reinvoke("cron")

Spec == Init /\ [][Next]_vars

\* A store operation of persistArticles may raise.
NextFail == RunStep("cron") \/ StoreFails("cron")

SpecFail == Init /\ [][NextFail]_vars

\* Two callers invoke runIngestion concurrently (cron and the admin
\* trigger); every await is a point where the other may run.
NextConc == \E p \in Procs : RunStep(p)

SpecConc == InitConc /\ [][NextConc]_vars

\* ---------------------------------------------------- admin keyword routes
RemoveAt(rows, i) == SubSeq(rows, 1, i - 1) \o SubSeq(rows, i + 1, Len(rows))

\* POST /api/admin/keywords: 409 when the term exists, else a new row.
KwCreate ==
  /\ kwOps < MaxKwOps
  /\ \E enabled \in BOOLEAN :
       /\ ~HasTerm(keywordRows, AdminTerm)
       /\ keywordRows' = Append(keywordRows, [term |-> AdminTerm, enabled |-> enabled])
  /\ kwOps' = kwOps + 1
  /\ UNCHANGED <<articles, auditLog, ingestRuns, apiCfg, feedFile, fails, served, run, webVars>>

\* PATCH /api/admin/keywords/[id]: a new term (409 when another row has
\* it) or a new enabled flag.
KwPatch ==
  /\ kwOps < MaxKwOps
  /\ \E i \in 1..Len(keywordRows) :
       \E upd \in {[term |-> Some(AdminTerm), enabled |-> Nothing],
                   [term |-> Nothing, enabled |-> Some(~keywordRows[i].enabled)]} :
         /\ IF upd.term # Nothing
            THEN ~\E j \in 1..Len(keywordRows) :
                    j # i /\ keywordRows[j].term = upd.term[1]
            ELSE TRUE
         /\ keywordRows' =
              [keywordRows EXCEPT ![i] =
                 [ term |-> IF upd.term # Nothing THEN upd.term[1] ELSE @.term,
                   enabled |-> IF upd.enabled # Nothing THEN upd.enabled[1] ELSE @.enabled ]]
  /\ kwOps' = kwOps + 1
  /\ UNCHANGED <<articles, auditLog, ingestRuns, apiCfg, feedFile, fails, served, run, webVars>>

\* DELETE /api/admin/keywords/[id]
KwDelete ==
  /\ kwOps < MaxKwOps
  /\ \E i \in 1..Len(keywordRows) : keywordRows' = RemoveAt(keywordRows, i)
  /\ kwOps' = kwOps + 1
  /\ UNCHANGED <<articles, auditLog, ingestRuns, apiCfg, feedFile, fails, served, run, webVars>>

\* One run, with admins editing the keywords meanwhile.
NextKw == RunStep("cron") \/ KwCreate \/ KwPatch \/ KwDelete

SpecKw == InitKw /\ [][NextKw]_vars

\* ------------------------------------------------------ url-metadata.ts
\* A page is a sequence of tokens, each standing for one unit of the body
\* (a tag, a script block, a marker of an access gate, or filler).
PageTokens ==
  { "title", "titleEmpty", "og:title", "og:titleBlank", "twitter:title",
    "og:description", "ldArticle", "ldEmptyHeadline", "ldTypeNumber", "ldInvalid",
    "paywallClass", "subscribersOnly", "alreadySubscriber", "pad",
    "og:image", "og:imageData", "twitter:image" }

\* MAX_RESPONSE_BYTES (5 MB in the code), in tokens.
MAX_RESPONSE_BYTES == 3

\* Most tokens the server puts in one chunk of the body.
MaxChunkLen == 2

\* decodeHtmlEntities: one replace pass per entity, in the order of the
\* code ("&amp;" first), then decimal and hexadecimal references.
DecodeHtmlEntities(str) ==
  LET amp == {[src |-> <<"&", "a", "m", "p", ";">>, out |-> "&"]}
      lt  == {[src |-> <<"&", "l", "t", ";">>, out |-> "<"]}
      gt  == {[src |-> <<"&", "g", "t", ";">>, out |-> ">"]}
      named == ReplaceEntities(ReplaceEntities(ReplaceEntities(str, amp, FALSE),
                                               lt, FALSE), gt, FALSE)
  IN ReplaceEntities(ReplaceEntities(named, DecimalEntities, FALSE), HexEntities, TRUE)

\* The content attribute of the meta tag a token stands for.
MetaContent(token) ==
  CASE token = "og:title"       -> <<"O", "g">>
    [] token = "og:titleBlank"  -> <<" ">>
    [] token = "twitter:title"  -> <<"T", "w">>
    [] token = "og:description" -> <<"<", "b", ">", "D", "e", "s", "c">>
    [] token = "og:image"       -> <<"https://cdn.example/i.png">>
    [] token = "og:imageData"   -> <<"data:image/png;base64,AA">>
    [] token = "twitter:image"  -> <<" ", "/t.png">>
    [] OTHER                    -> <<>>

\* The property (or name) attribute of the meta tag a token stands for.
MetaProperty(token) ==
  CASE token \in {"og:title", "og:titleBlank"} -> "og:title"
    [] token \in {"og:image", "og:imageData"} -> "og:image"
    [] token \in {"twitter:title", "og:description", "twitter:image"} -> token
    [] OTHER -> ""

\* findMeta(tags, lookup): the first meta tag with that property or name;
\* when its content is not the empty string, the trimmed and decoded
\* content (which may be empty), else null.
FindMeta(html, lookup) ==
  LET Is(t) == MetaProperty(t) = lookup
      tags == SelectSeq(html, Is)
  IN IF tags = <<>> THEN Nothing
     ELSE IF MetaContent(tags[1]) = <<>> THEN Nothing
     ELSE Some(DecodeHtmlEntities(Trim(MetaContent(tags[1]))))

\* The inner text of the <title> element a token stands for.
TitleText(token) == IF token = "title" THEN <<" ", "T", "i">> ELSE <<" ">>

\* parseTitle: the trimmed, decoded text of the first <title> element, or
\* null when there is none or the text is empty.
ParseTitle(html) ==
  LET IsTitle(t) == t \in {"title", "titleEmpty"}
      found == SelectSeq(html, IsTitle)
      text == IF found = <<>> THEN <<>> ELSE DecodeHtmlEntities(Trim(TitleText(found[1])))
  IN IF text = <<>> THEN Nothing ELSE Some(text)

\* The JSON-LD block a token stands for: its @type (a string or a number)
\* and its headline (a string, possibly of blanks only).
LdItem(token) ==
  CASE token = "ldArticle" ->
         [type |-> [kind |-> "string", v |-> "NewsArticle"], headline |-> <<"H", "l">>]
    [] token = "ldEmptyHeadline" ->
         [type |-> [kind |-> "string", v |-> "NewsArticle"], headline |-> <<" ">>]
    [] token = "ldTypeNumber" ->
         [type |-> [kind |-> "number", v |-> "5"], headline |-> <<"H", "n">>]

\* parseJsonLdBlocks: the parsed blocks; a block that is no JSON is skipped.
ParseJsonLdBlocks(html) ==
  LET IsLd(t) == t \in {"ldArticle", "ldEmptyHeadline", "ldTypeNumber"}
      blocks == SelectSeq(html, IsLd)
  IN [i \in 1..Len(blocks) |-> LdItem(blocks[i])]

ARTICLE_TYPES ==
  { "article", "newsarticle", "reportage", "satiricalarticle", "scholarlyarticle",
    "technicalarticle", "webpage", "webpageelement" }

LowerWord(w) == IF w = "NewsArticle" THEN "newsarticle" ELSE w

\* findArticleJsonLd: the first item whose @type is an article type.  An
\* absent @type is skipped; typeStr.toLowerCase() of a truthy value that is
\* no string raises a TypeError.
RECURSIVE FindArticleJsonLd(_)
FindArticleJsonLd(items) ==
  IF items = <<>> THEN [kind |-> "value", v |-> Nothing]
  ELSE LET type == Head(items).type
       IN IF type.kind = "absent" THEN FindArticleJsonLd(Tail(items))
          ELSE IF type.kind # "string" THEN [kind |-> "throw", v |-> Nothing]
          ELSE IF LowerWord(type.v) \notin ARTICLE_TYPES THEN FindArticleJsonLd(Tail(items))
          ELSE [kind |-> "value", v |-> Some([headline |-> Head(items).headline])]

\* (mutant) one text marker alone flags the page.
DetectPaywall_SingleText(html, statusCode) ==
  \/ statusCode \in {401, 403}
  \/ \E i \in 1..Len(html) :
       html[i] \in {"paywallClass", "subscribersOnly", "alreadySubscriber"}

\* detectPaywall: a 401 or 403, one structural marker, or two text markers.
DetectPaywall(html, statusCode) ==
  LET classHits == IF \E i \in 1..Len(html) : html[i] = "paywallClass" THEN 1 ELSE 0
      textHits  == Cardinality({t \in Range(html) : t \in {"subscribersOnly",
                                                          "alreadySubscriber"}})
  IN \/ statusCode \in {401, 403}
     \/ classHits >= 1
     \/ textHits >= 2
     \/ (textHits >= 1 /\ classHits >= 1)

\* makeError
MakeError(originalUrl, url, message, outletDomain, statusCode) ==
  [ kind |-> "value", url |-> url, originalUrl |-> originalUrl,
    title |-> <<>>, outlet |-> <<>>,
    outletDomain |-> IF outletDomain # Nothing THEN outletDomain[1]
                     ELSE IF IsParseableUrl(url) THEN Hostname(url) ELSE "",
    snippet |-> <<>>,
    isPaywalled |-> statusCode # Nothing /\ statusCode[1] \in {401, 403},
    fetchError |-> Some(message) ]

\* The read loop of fetchUrlMetadata over the chunks the server sends, each
\* of chunkLen tokens (the last one shorter).
RECURSIVE ReadChunks(_, _, _, _)
ReadChunks(remaining, chunkLen, chunks, reads) ==
  IF remaining = <<>>
  THEN [html |-> chunks, totalBytes |-> Len(chunks), reads |-> reads + 1,
        cancelled |-> FALSE, lastChunk |-> 0]
  ELSE LET n     == IF Len(remaining) < chunkLen THEN Len(remaining) ELSE chunkLen
           value == SubSeq(remaining, 1, n)
           acc   == chunks \o value
       IN IF Len(acc) >= MAX_RESPONSE_BYTES
          THEN [html |-> acc, totalBytes |-> Len(acc), reads |-> reads + 1,
                cancelled |-> TRUE, lastChunk |-> n]
          ELSE ReadChunks(SubSeq(remaining, n + 1, Len(remaining)), chunkLen, acc,
                          reads + 1)

\* The body as fetchUrlMetadata accumulates it: response.text() when the
\* response has no body stream, else the read loop.
ReadBody(server) ==
  IF ~server.hasReader
  THEN [html |-> server.page, totalBytes |-> Len(server.page), reads |-> 1,
        cancelled |-> FALSE, lastChunk |-> Len(server.page)]
  ELSE ReadChunks(server.page, server.chunkLen, <<>>, 0)

\* (mutant) the snippet of a gated page is kept.
SuppressSnippet_Keep(isPaywalled, snippet) == snippet

\* snippet: isPaywalled ? null : snippet
SuppressSnippet(isPaywalled, snippet) == IF isPaywalled THEN <<>> ELSE snippet

\* The first value that is not null (a ?? b ?? c); an empty string is a
\* value.
RECURSIVE Coalesce(_)
Coalesce(vs) ==
  IF vs = <<>> THEN <<>> ELSE IF Head(vs) # <<>> THEN Head(vs) ELSE Coalesce(Tail(vs))

\* The parse and derive part of fetchUrlMetadata.
ParseMetadata(originalUrl, normalizedUrl, outletDomain, html, statusCode) ==
  LET jsonLd == FindArticleJsonLd(ParseJsonLdBlocks(html))
      headline == IF jsonLd.v = Nothing THEN Nothing ELSE Some(jsonLd.v[1].headline)
      rawTitle == Coalesce(<<headline, FindMeta(html, "og:title"),
                             FindMeta(html, "twitter:title"), ParseTitle(html)>>)
      title == IF rawTitle = Nothing THEN <<>> ELSE Trim(rawTitle[1])
      rawSnippet == Coalesce(<<FindMeta(html, "og:description"),
                               FindMeta(html, "twitter:description"),
                               FindMeta(html, "description")>>)
      decoded == IF rawSnippet = Nothing THEN <<>>
                 ELSE Trim(DecodeHtmlEntities(rawSnippet[1]))
      snippet == SubSeq(decoded, 1, IF Len(decoded) < SnippetMax THEN Len(decoded)
                                    ELSE SnippetMax)
      isPaywalled == DetectPaywall(html, statusCode)
  IN IF jsonLd.kind = "throw" THEN [kind |-> "throw"]
     ELSE [ kind |-> "value", url |-> normalizedUrl, originalUrl |-> originalUrl,
            title |-> title, outlet |-> <<outletDomain>>, outletDomain |-> outletDomain,
            snippet |-> SuppressSnippet(isPaywalled, snippet),
            isPaywalled |-> isPaywalled, fetchError |-> Nothing ]

\* resolveImageUrl: null for no value or blanks; else the value resolved
\* against the page url, and null again unless it is an http(s) url.
ResolveImageUrl(rawUrl, pageUrl) ==
  IF rawUrl = Nothing THEN Nothing
  ELSE LET r == Trim(rawUrl[1])
       IN IF r = <<>> THEN Nothing
          ELSE IF r[1] = "/t.png" THEN Some(<<"https://", Hostname(pageUrl)>> \o r)
          ELSE IF r[1] = "data:image/png;base64,AA" THEN Nothing
          ELSE Some(r)

\* imageUrl of the parse: og:image, then the JSON-LD image (the model's
\* JSON-LD items carry none), then twitter:image.
ImageUrl(html, pageUrl) ==
  ResolveImageUrl(Coalesce(<<FindMeta(html, "og:image"), Nothing,
                             FindMeta(html, "twitter:image")>>), pageUrl)

\* What the server of a URL may do: fail at the network, or answer a status,
\* a content type and a page.  A response without a body stream has no
\* content.
Pages ==
  { <<"title", "og:description">>,
    <<"og:description", "paywallClass", "title">>,
    <<"subscribersOnly", "og:title", "alreadySubscriber">>,
    <<"subscribersOnly", "og:description", "title">>,
    <<"pad", "ldInvalid">>,
    <<"ldArticle", "title">>,
    <<"title", "ldTypeNumber">>,
    <<>> }

\* A page longer than the cap.
LongPage == <<"pad", "pad", "og:title", "pad", "title">>

Server(net, status, contentType, page, chunkLen, hasReader) ==
  [net |-> net, status |-> status, contentType |-> contentType, page |-> page,
   chunkLen |-> chunkLen, hasReader |-> hasReader]

Servers ==
  { Server("ok", st, "text/html", pg, MaxChunkLen, TRUE) : st \in {200, 403}, pg \in Pages }
  \cup { Server("ok", st, "application/json", <<>>, 1, TRUE) : st \in {200, 403} }
  \cup { Server("ok", 200, "text/html", LongPage, c, TRUE) : c \in 1..MaxChunkLen }
  \cup { Server("ok", 200, "text/html", <<>>, 1, FALSE) }
  \cup { Server(n, 200, "text/html", <<>>, 1, TRUE) : n \in {"timeout", "network"} }

\* fetchUrlMetadata(rawUrl) against one server behaviour: the UrlMetadata
\* returned, or a raised exception.
FetchUrlMetadata(rawUrl, server) ==
  LET originalUrl   == Trim(rawUrl)
      normalizedUrl == NormalizeUrl(originalUrl)
  IN IF ~IsParseableUrl(normalizedUrl)
     THEN MakeError(originalUrl, normalizedUrl, "Invalid URL", Nothing, Nothing)
     ELSE LET outletDomain == Hostname(normalizedUrl)
          IN IF server.net = "timeout"
             THEN MakeError(originalUrl, normalizedUrl, "Request timed out (12s).",
                            Some(outletDomain), Nothing)
             ELSE IF server.net # "ok"
             THEN MakeError(originalUrl, normalizedUrl, "Network error",
                            Some(outletDomain), Nothing)
             ELSE IF server.contentType # "text/html"
             THEN MakeError(originalUrl, normalizedUrl, "This URL returns JSON, not a webpage.",
                            Some(outletDomain), Some(server.status))
             ELSE ParseMetadata(originalUrl, normalizedUrl, outletDomain,
                                ReadBody(server).html, server.status)

\* The body fetchUrlMetadata accumulated, when it came to read one.
BodyRead(rawUrl, server) ==
  IF IsParseableUrl(NormalizeUrl(Trim(rawUrl))) /\ server.net = "ok"
     /\ server.contentType = "text/html"
  THEN Some(ReadBody(server)) ELSE Nothing

\* -------------------------------------------------------- rate-limit.ts
\* The limits of the two routes (30 and 10 per hour in the code) and the
\* window (one hour), scaled to the model's clock.
RATE_LIMIT == 2
INGEST_RATE_LIMIT == 3
RATE_WINDOW_MS == 2

\* The latest time and the most rateLimit calls of one behaviour.
MaxClock == 4
MaxCalls == 5

\* rateLimit(id, limit, windowMs) at time now on the store: the store
\* after the call and the RateLimitResult.
RateLimit(store, id, limit, windowMs, now) ==
  LET entry == store[id]
      fresh == IF entry = Nothing THEN TRUE ELSE entry[1].resetAt < now
  IN IF fresh
     THEN [ store  |-> [store EXCEPT ![id] = Some([count |-> 1, resetAt |-> now + windowMs])],
            result |-> [success |-> TRUE, remaining |-> limit - 1,
                        resetAt |-> now + windowMs] ]
     ELSE IF entry[1].count >= limit
     THEN [ store  |-> store,
            result |-> [success |-> FALSE, remaining |-> 0, resetAt |-> entry[1].resetAt] ]
     ELSE [ store  |-> [store EXCEPT ![id] = Some([entry[1] EXCEPT !.count = @ + 1])],
            result |-> [success |-> TRUE, remaining |-> limit - (entry[1].count + 1),
                        resetAt |-> entry[1].resetAt] ]

\* The record of one rateLimit call kept for the properties.
LoggedCall(id, limit, rl) ==
  [ id |-> id, at |-> clock, limit |-> limit, success |-> rl.result.success,
    before |-> limiter[id], after |-> rl.store[id] ]

\* A route calls rateLimit: fetch-from-url with its key and limit, the
\* ingest trigger with the caller's address and INGEST_RATE_LIMIT.
RateLimitCall ==
  /\ Len(callLog) < MaxCalls
  /\ \E c \in { [id |-> "url-fetch:admin@x", limit |-> RATE_LIMIT],
               [id |-> "10.0.0.1", limit |-> INGEST_RATE_LIMIT] } :
       LET rl == RateLimit(limiter, c.id, c.limit, RATE_WINDOW_MS, clock)
       IN /\ limiter' = rl.store
          /\ callLog' = Append(callLog, LoggedCall(c.id, c.limit, rl))
          /\ last' = [kind |-> "rateLimit", result |-> rl.result]
  /\ UNCHANGED <<articles, auditLog, clock, adminOps, ingestVars>>

\* Time passes.
Tick ==
  /\ clock < MaxClock
  /\ clock' = clock + 1
  /\ UNCHANGED <<articles, auditLog, limiter, callLog, last, adminOps, ingestVars>>

\* The setInterval sweep: entries whose window is over are deleted.
RateCleanup ==
  /\ \E id \in RateIds : limiter[id] # Nothing /\ limiter[id][1].resetAt < clock
  /\ limiter' = [id \in RateIds |->
                   IF limiter[id] # Nothing /\ limiter[id][1].resetAt < clock
                   THEN Nothing ELSE limiter[id]]
  /\ UNCHANGED <<articles, auditLog, clock, callLog, last, adminOps, ingestVars>>

NextRate == RateLimitCall \/ Tick \/ RateCleanup

SpecRate == InitConc /\ [][NextRate]_vars

\* --------------------------------------------------- the article routes
\* Most requests to the article routes in one behaviour.
MaxAdminOps == 3

\* getServerSession: no session, or the session of the admin.
Sessions == {Nothing, Some("admin@x")}

\* writeAuditLog({articleId, action, actorEmail, details})
AuditEntry(articleId, action, actorEmail, details) ==
  [articleId |-> articleId, action |-> action, actorEmail |-> actorEmail,
   details |-> details]

\* The urls an admin may submit: some with a tracking parameter, one that
\* is no URL.
SubmittedUrls == {UrlA, UrlATracked, UrlC, <<"not a url">>}

\* Step 6 of fetch-from-url: the status of the new Article.
UrlStatus(meta) ==
  IF meta.isPaywalled \/ (meta.fetchError # Nothing /\ meta.title = <<>>)
  THEN "NEEDS_MANUAL" ELSE "QUEUED"

\* Steps 8 to 10 of fetch-from-url: the row prisma.article.create inserts.
UrlArticle(meta, normalizedUrl) ==
  LET outletDomain == IF meta.outletDomain # "" THEN meta.outletDomain
                      ELSE Hostname(normalizedUrl)
  IN [ title |-> SanitizeText(IF meta.title # <<>> THEN meta.title
                              ELSE <<"Article from ", outletDomain>>),
       url |-> normalizedUrl,
       outlet |-> SanitizeText(IF meta.outlet # <<>> THEN meta.outlet
                               ELSE <<outletDomain>>),
       keywordsMatched |-> <<>>,
       snippet |-> IF meta.snippet # <<>>
                   THEN SanitizeAndTruncate(meta.snippet, SnippetMax) ELSE <<>>,
       manualSummary |-> Nothing, status |-> UrlStatus(meta), ingestSource |-> "URL" ]

\* POST /api/admin/articles/fetch-from-url, for the urls an admin may send
\* and the behaviours of their servers.
UrlFetchPostOn(urls, servers) ==
  /\ adminOps < MaxAdminOps
  /\ adminOps' = adminOps + 1
  /\ \E session \in Sessions, url \in urls, server \in servers :
       LET id            == "url-fetch:admin@x"
           rl            == RateLimit(limiter, id, RATE_LIMIT, RATE_WINDOW_MS, clock)
           rawUrl        == Trim(url)
           normalizedUrl == NormalizeUrl(rawUrl)
           existing      == {i \in 1..Len(articles) :
                               articles[i].url \in {rawUrl, normalizedUrl}}
           meta          == FetchUrlMetadata(normalizedUrl, server)
           Reply(code, m, b, made) ==
             last' = [kind |-> "urlPost", status |-> code, meta |-> m, body |-> b,
                      articleId |-> made]
           Refuse(code, m, b) ==
             /\ Reply(code, m, b, Nothing)
             /\ UNCHANGED <<articles, auditLog>>
       IN IF session = Nothing
          THEN Refuse(401, Nothing, Nothing) /\ UNCHANGED <<limiter, callLog>>
          ELSE /\ limiter' = rl.store
               /\ callLog' = Append(callLog, LoggedCall(id, RATE_LIMIT, rl))
               /\ IF ~rl.result.success THEN Refuse(429, Nothing, Nothing)
                  ELSE IF ~IsParseableUrl(rawUrl) THEN Refuse(400, Nothing, Nothing)
                  ELSE IF existing # {} THEN Refuse(409, Nothing, Nothing)
                  ELSE IF meta.kind = "throw"
                  THEN Refuse(500, Some(meta), BodyRead(normalizedUrl, server))
                  ELSE IF meta.fetchError # Nothing /\ meta.title = <<>>
                  THEN Refuse(422, Some(meta), BodyRead(normalizedUrl, server))
                  ELSE /\ articles' = Append(articles, UrlArticle(meta, normalizedUrl))
                       /\ auditLog' = Append(auditLog,
                            AuditEntry(Len(articles) + 1, "URL_INGESTED", session[1],
                                       [url |-> normalizedUrl, status |-> UrlStatus(meta),
                                        isPaywalled |-> meta.isPaywalled]))
                       /\ Reply(201, Some(meta), BodyRead(normalizedUrl, server),
                                Some(Len(articles) + 1))
  /\ UNCHANGED <<clock, ingestVars>>

UrlFetchPost == UrlFetchPostOn(SubmittedUrls, Servers)

\* A caller applies fetchUrlMetadata to a string (the refresh-images route
\* passes the url of a stored Article, whatever it is).
FetchMetadataCall ==
  /\ adminOps < MaxAdminOps
  /\ adminOps' = adminOps + 1
  /\ \E url \in SubmittedUrls \cup {UrlAFragment}, server \in Servers :
       last' = [kind |-> "fetchUrlMetadata", status |-> 0,
                meta |-> Some(FetchUrlMetadata(url, server)),
                body |-> BodyRead(url, server), articleId |-> Nothing]
  /\ UNCHANGED <<articles, auditLog, limiter, clock, callLog, ingestVars>>

NextUrl == UrlFetchPost \/ FetchMetadataCall

SpecUrl == InitConc /\ [][NextUrl]_vars

\* ------------------------------------------------- the moderation routes
\* !article.manualSummary: null and the empty string are both falsy.
NoSummary(manualSummary) == manualSummary = Nothing \/ manualSummary[1] = <<>>

\* (mutant) approve without the test for a manual summary.
ApproveRefused_Never(article) == FALSE

\* article.status === "NEEDS_MANUAL" && !article.manualSummary
ApproveRefused(article) ==
  article.status = "NEEDS_MANUAL" /\ NoSummary(article.manualSummary)

\* The ids a request may name: the stored Articles and one unknown id.
RequestIds == 1..(Len(articles) + 1)

\* The answer of a moderation route, as the next value of last.
Answer(kind, code, session, id) ==
  [kind |-> kind, status |-> code, session |-> session, id |-> id]

\* POST /api/articles/[id]/approve
Approve ==
  /\ adminOps < MaxAdminOps
  /\ adminOps' = adminOps + 1
  /\ \E session \in Sessions, id \in RequestIds :
       LET Refuse(code) == /\ last' = Answer("approve", code, session, id)
                           /\ UNCHANGED <<articles, auditLog>>
       IN IF session = Nothing THEN Refuse(401)
          ELSE IF id > Len(articles) THEN Refuse(404)
          ELSE IF ApproveRefused(articles[id]) THEN Refuse(422)
          ELSE /\ articles' = [articles EXCEPT ![id].status = "APPROVED"]
               /\ auditLog' = Append(auditLog,
                    AuditEntry(id, "APPROVED", session[1],
                               [previousStatus |-> articles[id].status]))
               /\ last' = Answer("approve", 200, session, id)
  /\ UNCHANGED <<limiter, clock, callLog, ingestVars>>

\* POST /api/articles/[id]/reject
Reject ==
  /\ adminOps < MaxAdminOps
  /\ adminOps' = adminOps + 1
  /\ \E session \in Sessions, id \in RequestIds :
       LET Refuse(code) == /\ last' = Answer("reject", code, session, id)
                           /\ UNCHANGED <<articles, auditLog>>
       IN IF session = Nothing THEN Refuse(401)
          ELSE IF id > Len(articles) THEN Refuse(404)
          ELSE /\ articles' = [articles EXCEPT ![id].status = "REJECTED"]
               /\ auditLog' = Append(auditLog,
                    AuditEntry(id, "REJECTED", session[1],
                               [previousStatus |-> articles[id].status]))
               /\ last' = Answer("reject", 200, session, id)
  /\ UNCHANGED <<limiter, clock, callLog, ingestVars>>

\* The bodies of a PATCH: manualSummary left out, one that is only markup,
\* or a text.
PatchBodies ==
  { [manualSummary |-> Nothing], [manualSummary |-> Some(<<"<", "i", ">">>)],
    [manualSummary |-> Some(<<"s", "m">>)] }

\* PATCH /api/articles/[id]: manualSummary is written when the body has
\* it; the EDITED entry is written in either case.
PatchArticle ==
  /\ adminOps < MaxAdminOps
  /\ adminOps' = adminOps + 1
  /\ \E session \in Sessions, id \in RequestIds, body \in PatchBodies :
       LET Refuse(code) == /\ last' = Answer("patch", code, session, id)
                           /\ UNCHANGED <<articles, auditLog>>
           updateData == IF body.manualSummary = Nothing THEN Nothing
                         ELSE Some(SanitizeText(body.manualSummary[1]))
       IN IF session = Nothing THEN Refuse(401)
          ELSE IF id > Len(articles) THEN Refuse(404)
          ELSE /\ articles' = IF updateData = Nothing THEN articles
                              ELSE [articles EXCEPT ![id].manualSummary = updateData]
               /\ auditLog' = Append(auditLog,
                    AuditEntry(id, "EDITED", session[1],
                               [before |-> articles[id].manualSummary,
                                after |-> updateData]))
               /\ last' = Answer("patch", 200, session, id)
  /\ UNCHANGED <<limiter, clock, callLog, ingestVars>>

\* The bodies of a manual entry.
ManualEntries ==
  { [title |-> <<"M">>, outlet |-> <<"B">>, url |-> UrlB, manualSummary |-> ms,
     status |-> st] :
      ms \in {Nothing, Some(<<"s", "m">>)}, st \in {"QUEUED", "APPROVED", "NEEDS_MANUAL"} }

\* POST /api/queue: a manual entry.
ManualEntry ==
  /\ adminOps < MaxAdminOps
  /\ adminOps' = adminOps + 1
  /\ \E session \in Sessions, data \in ManualEntries :
       LET Refuse(code) == /\ last' = Answer("manualEntry", code, session, 0)
                           /\ UNCHANGED <<articles, auditLog>>
       IN IF session = Nothing THEN Refuse(401)
          ELSE IF FindUnique(articles, data.url) # {} THEN Refuse(409)
          ELSE /\ articles' = Append(articles,
                    [ title |-> SanitizeText(data.title), url |-> data.url,
                      outlet |-> SanitizeText(data.outlet), keywordsMatched |-> <<>>,
                      snippet |-> <<>>,
                      manualSummary |-> IF NoSummary(data.manualSummary) THEN Nothing
                                        ELSE Some(SanitizeText(data.manualSummary[1])),
                      status |-> data.status, ingestSource |-> "MANUAL" ])
               /\ auditLog' = Append(auditLog,
                    AuditEntry(Len(articles) + 1, "MANUAL_ENTRY", session[1],
                               [url |-> data.url, status |-> data.status]))
               /\ last' = Answer("manualEntry", 201, session, Len(articles) + 1)
  /\ UNCHANGED <<limiter, clock, callLog, ingestVars>>

\* GET /api/articles: the public list.
PublicList ==
  /\ LET Approved(a) == a.status = "APPROVED"
     IN last' = [kind |-> "publicList", status |-> 200,
                 items |-> SelectSeq(articles, Approved)]
  /\ UNCHANGED <<articles, auditLog, limiter, clock, callLog, adminOps, ingestVars>>

\* GET /api/articles/[id]
PublicGet ==
  /\ \E id \in RequestIds :
       last' = IF id > Len(articles)
               THEN [kind |-> "publicGet", status |-> 404, items |-> <<>>]
               ELSE [kind |-> "publicGet", status |-> 200, items |-> <<articles[id]>>]
  /\ UNCHANGED <<articles, auditLog, limiter, clock, callLog, adminOps, ingestVars>>

\* The Article and the audit entry a run leaves for the first item of Feed A.
IngestedItem ==
  ParseRssItem(RssItem(<<"<", "i", ">", "c", "g">>, UrlA, <<>>, Some(1)), FeedFile[1],
               [from |-> Nothing, to |-> Nothing, keywords |-> DEFAULT_KEYWORDS])[1]

\* A server that answers a gated page.
GatedServer ==
  Server("ok", 200, "text/html", <<"og:description", "paywallClass", "title">>,
         MaxChunkLen, TRUE)

\* The store after one run ingested an item and an admin fetched a gated
\* page by url.
InitMod ==
  /\ InitWeb
  /\ articles = << NewArticle(IngestedItem,
                              MatchKeywords(IngestedItem.title \o <<" ">> \o
                                            IngestedItem.snippet, DEFAULT_KEYWORDS)),
                   UrlArticle(FetchUrlMetadata(UrlC, GatedServer), NormalizeUrl(UrlC)) >>
  /\ auditLog = << IngestedEntry(1, IngestedItem),
                   AuditEntry(2, "URL_INGESTED", "admin@x",
                              [url |-> NormalizeUrl(UrlC), status |-> "NEEDS_MANUAL",
                               isPaywalled |-> TRUE]) >>
  /\ ingestRuns = <<>>
  /\ keywordRows = <<>>
  /\ fails = 0
  /\ kwOps = 0
  /\ served = [s \in Sources |-> Nothing]
  /\ run = [p \in Procs |-> IdleRun]
  /\ feedFile = OneFeedFile
  /\ apiCfg = "none"

\* One more url fetched during moderation.
ModUrlFetch == UrlFetchPostOn({UrlATracked, UrlB}, {GatedServer})

NextMod ==
  \/ Approve \/ Reject \/ PatchArticle \/ ManualEntry \/ PublicList \/ PublicGet
  \/ ModUrlFetch

SpecMod == InitMod /\ [][NextMod]_vars

\* --------------------------------- the keyword table across several calls
\* seedDefaultKeywords / ensureSeeded: one upsert per default term, in order.
RECURSIVE SeedFrom(_, _)
SeedFrom(rows, i) ==
  IF i > Len(DEFAULT_KEYWORDS) THEN rows
  ELSE SeedFrom(UpsertDefault(rows, DEFAULT_KEYWORDS[i]), i + 1)

SeedDefaultKeywords(rows) == SeedFrom(rows, 1)

\* The terms an admin may create: the defaults and one more.
AdminTerms == Range(DEFAULT_KEYWORDS) \cup {AdminTerm}

\* The terms that are an enabled row.
EnabledSet(rows) == Range(EnabledTerms(rows))

\* What is remembered for the properties: the last call with what it
\* returned and the table before and after it, and the terms an admin
\* disabled or deleted and has not enabled or created again since.
KwHistory(kind, result, before, after, removed) ==
  [ kind |-> kind, result |-> result, before |-> before, after |-> after,
    removed |-> removed, hidden |-> removed ]

\* After an admin operation that disabled or deleted the terms gone: the
\* terms removed by an admin that are still no enabled row.
AdminChange(rows, gone) ==
  /\ keywordRows' = rows
  /\ last' = [last EXCEPT !.removed = (@ \cup gone) \ EnabledSet(rows)]
  /\ kwOps' = kwOps + 1
  /\ UNCHANGED <<articles, auditLog, ingestRuns, apiCfg, feedFile, fails, served, run,
                 limiter, clock, callLog, adminOps>>

\* POST /api/admin/keywords with any term: 409 when the term exists.
KwCreateTerm ==
  /\ kwOps < MaxKwOps
  /\ \E term \in AdminTerms, enabled \in BOOLEAN :
       /\ ~HasTerm(keywordRows, term)
       /\ AdminChange(Append(keywordRows, [term |-> term, enabled |-> enabled]), {})

\* PATCH /api/admin/keywords/[id] with { enabled }.
KwSetEnabled ==
  /\ kwOps < MaxKwOps
  /\ \E i \in 1..Len(keywordRows), enabled \in BOOLEAN :
       AdminChange([keywordRows EXCEPT ![i].enabled = enabled],
                   IF enabled THEN {} ELSE {keywordRows[i].term})

\* DELETE /api/admin/keywords/[id]
KwDeleteRow ==
  /\ kwOps < MaxKwOps
  /\ \E i \in 1..Len(keywordRows) :
       AdminChange(RemoveAt(keywordRows, i), {keywordRows[i].term})

\* getTrackedKeywords(): the sync of the defaults and the enabled terms, or
\* DEFAULT_KEYWORDS when the store cannot be reached.
GetTrackedKeywordsCall ==
  /\ adminOps < MaxAdminOps
  /\ adminOps' = adminOps + 1
  /\ \E dbOk \in BOOLEAN :
       LET rows == SeedDefaultKeywords(keywordRows)
       IN IF dbOk
          THEN /\ keywordRows' = rows
               /\ last' = KwHistory("getTrackedKeywords", EnabledTerms(rows), keywordRows,
                                    rows, last.removed)
          ELSE /\ keywordRows' = keywordRows
               /\ last' = KwHistory("fallback", DEFAULT_KEYWORDS, keywordRows, keywordRows,
                                    last.removed)
  /\ UNCHANGED <<articles, auditLog, ingestRuns, apiCfg, feedFile, fails, kwOps, served, run,
                 limiter, clock, callLog>>

\* GET /api/admin/keywords: ensureSeeded, then every row.
KwList ==
  /\ adminOps < MaxAdminOps
  /\ adminOps' = adminOps + 1
  /\ LET rows == SeedDefaultKeywords(keywordRows)
     IN /\ keywordRows' = rows
        /\ last' = KwHistory("list", [i \in 1..Len(rows) |-> rows[i].term], keywordRows,
                             rows, last.removed)
  /\ UNCHANGED <<articles, auditLog, ingestRuns, apiCfg, feedFile, fails, kwOps, served, run,
                 limiter, clock, callLog>>

\* An empty table, before the first call.
InitKwSync ==
  /\ limiter = [id \in RateIds |-> Nothing]
  /\ clock = 0
  /\ callLog = <<>>
  /\ adminOps = 0
  /\ last = KwHistory("none", <<>>, <<>>, <<>>, {})
  /\ articles = <<>>
  /\ auditLog = <<>>
  /\ ingestRuns = <<>>
  /\ keywordRows = <<>>
  /\ fails = 0
  /\ kwOps = 0
  /\ served = [s \in Sources |-> Nothing]
  /\ run = [p \in Procs |-> IdleRun]
  /\ feedFile = OneFeedFile
  /\ apiCfg = "none"

NextKwSync ==
  \/ KwCreateTerm \/ KwSetEnabled \/ KwDeleteRow \/ GetTrackedKeywordsCall \/ KwList

SpecKwSync == InitKwSync /\ [][NextKwSync]_vars

\* ------------------------------- fetch-from-url, two requests in flight
\* Most requests in flight at once.
MaxRequests == 3

Requests == 1..MaxRequests

\* The urls of the concurrent requests: all normalize to UrlA.
SameUrls == {UrlA, UrlATracked, UrlAFragment}

\* A server that answers an open page with a title.
OpenServer ==
  Server("ok", 200, "text/html", <<"title", "og:description">>, MaxChunkLen, TRUE)

\* A request that was not sent yet, one between its awaits, one answered.
IdleRequest == [pc |-> "idle"]

PendingRequest(rawUrl, actorEmail) ==
  [pc |-> "fetching", rawUrl |-> rawUrl, actorEmail |-> actorEmail]

Answered(status, existingId, articleId) ==
  [pc |-> "done", status |-> status, existingId |-> existingId, articleId |-> articleId]

\* Steps 1 to 4 of POST: session, rate limit, url check and the duplicate
\* lookup (findFirst), up to the await of fetchUrlMetadata.
UrlPostLookup(p) ==
  /\ run[p].pc = "idle"
  /\ \E session \in Sessions, url \in SameUrls :
       LET id            == "url-fetch:admin@x"
           rl            == RateLimit(limiter, id, RATE_LIMIT, RATE_WINDOW_MS, clock)
           rawUrl        == Trim(url)
           normalizedUrl == NormalizeUrl(rawUrl)
           existing      == {i \in 1..Len(articles) :
                               articles[i].url \in {rawUrl, normalizedUrl}}
       IN IF session = Nothing
          THEN /\ run' = [run EXCEPT ![p] = Answered(401, Nothing, Nothing)]
               /\ UNCHANGED <<limiter, callLog>>
          ELSE /\ limiter' = rl.store
               /\ callLog' = Append(callLog, LoggedCall(id, RATE_LIMIT, rl))
               /\ run' = [run EXCEPT ![p] =
                    IF ~rl.result.success THEN Answered(429, Nothing, Nothing)
                    ELSE IF ~IsParseableUrl(rawUrl) THEN Answered(400, Nothing, Nothing)
                    ELSE IF existing # {}
                    THEN Answered(409, Some(CHOOSE i \in existing : TRUE), Nothing)
                    ELSE PendingRequest(rawUrl, session[1])]
  /\ UNCHANGED <<articles, auditLog, clock, last, adminOps, ingestRuns, keywordRows,
                 apiCfg, feedFile, fails, kwOps, served>>

\* Steps 5 to 11 of POST: the fetch, the insert (which the unique index on
\* url may reject: the catch answers 500), the audit entry and the answer.
UrlPostCreate(p) ==
  /\ run[p].pc = "fetching"
  /\ \E server \in {OpenServer, GatedServer} :
       LET normalizedUrl == NormalizeUrl(run[p].rawUrl)
           meta          == FetchUrlMetadata(normalizedUrl, server)
       IN IF meta.kind = "throw" \/ UniqueViolation(articles, normalizedUrl)
          THEN /\ run' = [run EXCEPT ![p] = Answered(500, Nothing, Nothing)]
               /\ UNCHANGED <<articles, auditLog>>
          ELSE IF meta.fetchError # Nothing /\ meta.title = <<>>
          THEN /\ run' = [run EXCEPT ![p] = Answered(422, Nothing, Nothing)]
               /\ UNCHANGED <<articles, auditLog>>
          ELSE /\ articles' = Append(articles, UrlArticle(meta, normalizedUrl))
               /\ auditLog' = Append(auditLog,
                    AuditEntry(Len(articles) + 1, "URL_INGESTED", run[p].actorEmail,
                               [url |-> normalizedUrl, status |-> UrlStatus(meta),
                                isPaywalled |-> meta.isPaywalled]))
               /\ run' = [run EXCEPT ![p] = Answered(201, Nothing, Some(Len(articles) + 1))]
  /\ UNCHANGED <<limiter, clock, callLog, last, adminOps, ingestRuns, keywordRows,
                 apiCfg, feedFile, fails, kwOps, served>>

\* The url is stored already, or not.
InitUrlConc ==
  /\ InitWeb
  /\ \/ articles = <<>> /\ auditLog = <<>>
     \/ /\ articles = <<UrlArticle(FetchUrlMetadata(UrlA, OpenServer), UrlA)>>
        /\ auditLog = <<AuditEntry(1, "URL_INGESTED", "admin@x",
                                   [url |-> UrlA, status |-> "QUEUED",
                                    isPaywalled |-> FALSE])>>
  /\ ingestRuns = <<>>
  /\ keywordRows = <<>>
  /\ fails = 0
  /\ kwOps = 0
  /\ served = [s \in Sources |-> Nothing]
  /\ run = [p \in Requests |-> IdleRequest]
  /\ feedFile = OneFeedFile
  /\ apiCfg = "none"

NextUrlConc == \E p \in Requests : UrlPostLookup(p) \/ UrlPostCreate(p)

SpecUrlConc == InitUrlConc /\ [][NextUrlConc]_vars

\* ------------------------------------------------ refresh-images/route.ts
\* MAX_ARTICLES (100 in the code), scaled to the model's small store.
MAX_ARTICLES == 2

\* INTER_REQ_DELAY (250 ms in the code), in ticks of the clock.
INTER_REQ_DELAY == 1

\* Most invocations of the refresh in one behaviour.
MaxRefreshes == 2

\* An image stored before the refresh.
OldImage == <<"https://cdn.example/old.png">>

\* A stored Article with its imageUrl column.
ImgArticle(url, imageUrl) ==
  [ NewArticle(IngestedItem, <<>>) EXCEPT !.url = url ] @@ [imageUrl |-> imageUrl]

\* The pages the origins of the stored Articles answer, with and without
\* an image.
ImagePages ==
  { <<"og:image", "title">>, <<"og:imageData", "twitter:image">>,
    <<"twitter:image">>, <<"title">>, <<"title", "ldTypeNumber">> }

ImgServers ==
  { Server("ok", 200, "text/html", pg, MaxChunkLen, TRUE) : pg \in ImagePages }
  \cup { Server("network", 200, "text/html", <<>>, 1, TRUE) }

\* meta.imageUrl of fetchUrlMetadata(rawUrl), or the exception it raised.
FetchedImage(rawUrl, server) ==
  LET meta == FetchUrlMetadata(rawUrl, server)
  IN IF meta.kind = "throw" THEN [kind |-> "throw"]
     ELSE [ kind |-> "value",
            imageUrl |-> IF meta.fetchError # Nothing THEN Nothing
                         ELSE ImageUrl(ReadBody(server).html, NormalizeUrl(Trim(rawUrl))) ]

\* The ids of rows, latest first.
LatestFirst(ids) == [i \in 1..Len(ids) |-> ids[Len(ids) + 1 - i]]

\* (mutant) findMany without take.
FindWithoutImage_NoTake(rows) ==
  LET NoImage(id) == rows[id].imageUrl = Nothing
  IN SelectSeq(LatestFirst([i \in 1..Len(rows) |-> i]), NoImage)

\* findMany({ where: { imageUrl: null }, orderBy: { createdAt: "desc" },
\* take: MAX_ARTICLES }): the ids of the selected rows.
FindWithoutImage(rows) ==
  LET NoImage(id) == rows[id].imageUrl = Nothing
      found == SelectSeq(LatestFirst([i \in 1..Len(rows) |-> i]), NoImage)
  IN SubSeq(found, 1, IF Len(found) < MAX_ARTICLES THEN Len(found) ELSE MAX_ARTICLES)

\* The state of one invocation: the batch, the loop index, the counters,
\* and (for the properties) the store it started from, the ids it fetched
\* with the time of each fetch, and the ids it wrote.
Refresh(phase, status, batch, i, updated, failed, before, fetched, written) ==
  [ kind |-> "refreshImages", phase |-> phase, status |-> status, batch |-> batch,
    i |-> i, total |-> Len(batch), updated |-> updated, failed |-> failed,
    before |-> before, fetched |-> fetched, written |-> written ]

\* POST up to the loop: 401 without a session, else the batch is read (the
\* request fails when the query does).
RefreshImagesPost ==
  /\ adminOps < MaxRefreshes
  /\ last.kind = "refreshImages" => last.phase = "done"
  /\ adminOps' = adminOps + 1
  /\ \E session \in Sessions, dbOk \in BOOLEAN :
       last' = IF session = Nothing
               THEN Refresh("done", 401, <<>>, 0, 0, 0, articles, <<>>, {})
               ELSE IF ~dbOk
               THEN Refresh("done", 500, <<>>, 0, 0, 0, articles, <<>>, {})
               ELSE Refresh("loop", 0, FindWithoutImage(articles), 0, 0, 0, articles,
                            <<>>, {})
  /\ UNCHANGED <<articles, auditLog, limiter, clock, callLog, ingestVars>>

\* One turn of the loop: the delay (not before the first fetch), the fetch,
\* and the update when an image was found.
RefreshImagesFetch ==
  /\ last.kind = "refreshImages" /\ last.phase = "loop" /\ last.i < Len(last.batch)
  /\ clock' = IF last.i > 0 THEN clock + INTER_REQ_DELAY ELSE clock
  /\ \E server \in ImgServers, dbOk \in BOOLEAN :
       LET id   == last.batch[last.i + 1]
           meta == FetchedImage(articles[id].url, server)
           seen == Append(last.fetched, [id |-> id, at |-> clock'])
           found == meta.kind = "value" /\ meta.imageUrl # Nothing
       IN IF found /\ dbOk
          THEN /\ articles' = [articles EXCEPT ![id].imageUrl = meta.imageUrl]
               /\ last' = [last EXCEPT !.i = @ + 1, !.updated = @ + 1, !.fetched = seen,
                                       !.written = @ \cup {id}]
          ELSE /\ articles' = articles
               /\ last' = [last EXCEPT !.i = @ + 1, !.failed = @ + 1, !.fetched = seen]
  /\ UNCHANGED <<auditLog, limiter, callLog, adminOps, ingestVars>>

\* After the loop: 200 with { total, updated, failed }.
RefreshImagesRespond ==
  /\ last.kind = "refreshImages" /\ last.phase = "loop" /\ last.i = Len(last.batch)
  /\ last' = [last EXCEPT !.phase = "done", !.status = 200]
  /\ UNCHANGED <<articles, auditLog, limiter, clock, callLog, adminOps, ingestVars>>

\* A store of three Articles, each with or without an image.
InitImg ==
  /\ InitWeb
  /\ \E a, b, c \in {Nothing, Some(OldImage)} :
       articles = <<ImgArticle(UrlA, a), ImgArticle(UrlB, b), ImgArticle(UrlC, c)>>
  /\ auditLog = <<>>
  /\ ingestRuns = <<>>
  /\ keywordRows = <<>>
  /\ fails = 0
  /\ kwOps = 0
  /\ served = [s \in Sources |-> Nothing]
  /\ run = [p \in Procs |-> IdleRun]
  /\ feedFile = OneFeedFile
  /\ apiCfg = "none"

NextImg == RefreshImagesPost \/ RefreshImagesFetch \/ RefreshImagesRespond

SpecImg == InitImg /\ [][NextImg]_vars

\* ------------------------------------------- the functions, one at a time
\* Each behaviour applies one function to one input.
\* Longest page handed to detectPaywall.
MaxPageLen == 3

\* The pages detectPaywall is applied to: markers and filler in any order,
\* a marker possibly more than once.
PaywallPages ==
  SeqsUpTo({"paywallClass", "subscribersOnly", "alreadySubscriber", "pad"}, MaxPageLen)

\* detectPaywall(html, statusCode) is called.
DetectPaywallCall ==
  /\ last = NoExchange
  /\ \E html \in PaywallPages, statusCode \in {200, 401, 403, 404} :
       last' = [kind |-> "detectPaywall", html |-> html, statusCode |-> statusCode,
                result |-> DetectPaywall(html, statusCode)]
  /\ UNCHANGED <<articles, auditLog, limiter, clock, callLog, adminOps, ingestVars>>

\* The pages whose title is derived: every order of the title sources, some
\* of them blank.
TitlePages ==
  SeqsUpTo({"ldArticle", "ldEmptyHeadline", "og:title", "og:titleBlank",
            "twitter:title", "title"}, MaxPageLen)

\* The parse and derive part of fetchUrlMetadata runs on the body of a
\* 200 text/html response.
ParseMetadataCall ==
  /\ last = NoExchange
  /\ \E html \in TitlePages :
       last' = [kind |-> "parseMetadata", html |-> html,
                result |-> ParseMetadata(UrlA, UrlA, Hostname(UrlA), html, 200)]
  /\ UNCHANGED <<articles, auditLog, limiter, clock, callLog, adminOps, ingestVars>>

\* The latest publication date of an item handed to an adapter.
MaxDate == 3

\* The titles an item may carry: none, markup only, one that matches a
\* keyword and one that does not.
ItemTitles == { <<>>, <<"<", "i", ">">>, <<"c", "g">>, <<"n", "o">> }

\* The date windows of the adapters, both bounds inside the dates of the
\* items.
AdapterWindows ==
  { [keywords |-> DEFAULT_KEYWORDS, from |-> f, to |-> t] :
      f \in {Nothing, Some(1)}, t \in {Nothing, Some(2)} }

\* The items a feed may carry.
AdapterRssItems ==
  { [title |-> t, link |-> l, guid |-> g, description |-> d, pubDate |-> p] :
      t \in ItemTitles, l \in {<<>>, UrlA}, g \in {<<>>, UrlB},
      d \in {<<>>, <<"s", "b">>},
      p \in {Nothing, Some(BadDate)} \cup {Some(n) : n \in 0..MaxDate} }

\* The items a provider may answer.
AdapterApiItems ==
  { ApiItem(t, u, d, p) :
      t \in ItemTitles \cup {Removed}, u \in {<<>>, UrlA, <<"not a url">>},
      d \in {<<>>, <<"s", "b">>}, p \in {BadDate} \cup 0..MaxDate }

\* The RSS adapter parses the items of one feed.
RssAdapterCall ==
  /\ last = NoExchange
  /\ \E item \in AdapterRssItems, options \in AdapterWindows :
       last' = [kind |-> "rssAdapter", item |-> item, options |-> options,
                url |-> OrElse(item.link, item.guid),
                date |-> IF item.pubDate # Nothing THEN item.pubDate[1] ELSE Now,
                result |-> ParseRssItems(<<item>>, FeedFile[1], options)]
  /\ UNCHANGED <<articles, auditLog, limiter, clock, callLog, adminOps, ingestVars>>

\* The API adapter, for either provider, on one answer.
ApiAdapterCall ==
  /\ last = NoExchange
  /\ \E item \in AdapterApiItems, options \in AdapterWindows,
        provider \in {"newsapi", "newsdata"} :
       last' = [kind |-> "apiAdapter", item |-> item, options |-> options,
                url |-> item.url, date |-> item.publishedAt,
                result |-> FetchFromNewsApi_Adapter(provider, options,
                             [kind |-> "ok", items |-> <<item>>]).articles]
  /\ UNCHANGED <<articles, auditLog, limiter, clock, callLog, adminOps, ingestVars>>

\* Largest budget and longest keyword list handed to buildOrQuery.
MaxBudget == 20
MaxKeywords == 3

\* Keywords of one, two and five characters.
QueryTerms == { <<"a">>, <<"b", "c">>, <<"d", "e", "f", "g", "h">> }

\* buildOrQuery(keywords, budgetChars) is called.
BuildOrQueryCall ==
  /\ last = NoExchange
  /\ \E keywords \in SeqsUpTo(QueryTerms, MaxKeywords), budgetChars \in 0..MaxBudget :
       last' = [kind |-> "buildOrQuery", keywords |-> keywords,
                budgetChars |-> budgetChars,
                result |-> BuildOrQuery(keywords, budgetChars)]
  /\ UNCHANGED <<articles, auditLog, limiter, clock, callLog, adminOps, ingestVars>>

\* A keyword longer than the query budget of either provider.
LongKeyword == [i \in 1..NewsdataBudget |-> "k"]

\* A keyword list whose second term does not fit the budget.
OverBudgetKeywords == << <<"c", "g">>, LongKeyword, <<"s", "b">> >>

\* The API adapter is called with a keyword list that exceeds the budget.
ApiOverBudgetCall ==
  /\ last = NoExchange
  /\ \E item \in AdapterApiItems, provider \in {"newsapi", "newsdata"} :
       LET options == [keywords |-> OverBudgetKeywords, from |-> Nothing, to |-> Nothing]
           budget  == IF provider = "newsdata" THEN NewsdataBudget ELSE NewsApiBudget
       IN last' = [kind |-> "apiOverBudget", item |-> item, options |-> options,
                   provider |-> provider,
                   query |-> BuildOrQuery(options.keywords, budget),
                   result |-> FetchFromNewsApi_Adapter(provider, options,
                                [kind |-> "ok", items |-> <<item>>])]
  /\ UNCHANGED <<articles, auditLog, limiter, clock, callLog, adminOps, ingestVars>>

\* Most query parameters of a url handed to normalizeUrl.
MaxParams == 3

\* The query parameters a url may carry: two on the deny-list (one with an
\* upper-case key) and two that are not.
QueryParamLexemes == {"utm_source=x", "UTM_Medium=y", "id=5", "q=1"}

\* The strings handed to normalizeUrl: a url or a string that is none,
\* with or without a query and a fragment.
NormalizeInputs ==
  { <<head>> \o (IF ps = <<>> THEN bare ELSE <<"?">> \o JoinParams(ps)) \o frag :
      head \in {"https://ex.com/a", "not a url"},
      ps \in SeqsUpTo(QueryParamLexemes, MaxParams),
      bare \in {<<>>, <<"?">>},
      frag \in {<<>>, <<"#">>, <<"#", "top">>, <<"#", "utm_source=x">>} }

\* normalizeUrl(rawUrl) is called, and again on its result.
NormalizeUrlCall ==
  /\ last = NoExchange
  /\ \E rawUrl \in NormalizeInputs :
       last' = [kind |-> "normalizeUrl", rawUrl |-> rawUrl,
                result |-> NormalizeUrl(rawUrl),
                again |-> NormalizeUrl(NormalizeUrl(rawUrl))]
  /\ UNCHANGED <<articles, auditLog, limiter, clock, callLog, adminOps, ingestVars>>

\* Most pieces of a text handed to sanitizeText.
MaxPieces == 3

\* The pieces such a text is made of: angle brackets, a letter, a blank and
\* the entity spellings of the angle brackets.
TextPieces ==
  { <<"<">>, <<">">>, <<"b">>, <<" ">>,
    <<"&", "l", "t", ";">>, <<"&", "g", "t", ";">>,
    <<"&", "#", "6", "0", ";">>, <<"&", "#", "x", "3", "c", ";">> }

RECURSIVE Flatten(_)
Flatten(ss) == IF ss = <<>> THEN <<>> ELSE Head(ss) \o Flatten(Tail(ss))

SanitizeInputs == {Flatten(ps) : ps \in SeqsUpTo(TextPieces, MaxPieces)}

\* sanitizeText(input) is called.
SanitizeTextCall ==
  /\ last = NoExchange
  /\ \E input \in SanitizeInputs :
       last' = [kind |-> "sanitizeText", input |-> input,
                result |-> SanitizeText(input)]
  /\ UNCHANGED <<articles, auditLog, limiter, clock, callLog, adminOps, ingestVars>>

NextFn ==
  \/ DetectPaywallCall \/ ParseMetadataCall \/ RssAdapterCall \/ ApiAdapterCall
  \/ BuildOrQueryCall \/ ApiOverBudgetCall \/ NormalizeUrlCall
  \/ SanitizeTextCall

SpecFn == InitConc /\ [][NextFn]_vars

\* ------------------------------------------ keyword store unreachable
\* The keyword tables a run may find: empty, holding an enabled term of an
\* admin, or holding a default term an admin disabled.
KeywordTables ==
  { <<>>,
    << [term |-> AdminTerm, enabled |-> TRUE] >>,
    << [term |-> DEFAULT_KEYWORDS[1], enabled |-> FALSE] >> }

InitKwDown ==
  /\ InitWeb
  /\ articles = <<>>
  /\ auditLog = <<>>
  /\ ingestRuns = <<>>
  /\ keywordRows \in KeywordTables
  /\ fails = 0
  /\ kwOps = 0
  /\ served = [s \in Sources |-> Nothing]
  /\ run = [p \in Procs |-> IdleRun]
  /\ feedFile = OneFeedFile
  /\ apiCfg = "newsapi"

\* One run whose keyword store may be down.
NextKwDown == RunStep("cron") \/ KeywordStoreFails("cron")

SpecKwDown == InitKwDown /\ [][NextKwDown]_vars

\* ================================================================ claims
Cron == run["cron"]

SearchText(a) == a.title \o <<" ">> \o a.snippet

UrlsUnique ==
  \A i, j \in 1..Len(articles) : articles[i].url = articles[j].url => i = j

RowsWithUrl(u) == {i \in 1..Len(articles) : articles[i].url = u}

Ingested(u) ==
  {k \in 1..Len(auditLog) : auditLog[k].action = "INGESTED" /\ auditLog[k].url = u}

IngestedFor(id) ==
  {k \in 1..Len(auditLog) :
     /\ auditLog[k].action = "INGESTED"
     /\ auditLog[k].actorEmail = "system@ingestion"
     /\ auditLog[k].articleId = id}

\* The IngestRun rows of the invocation r of caller p, in creation order.
RunsOf(p, r) ==
  LET Mine(row) == row.owner = <<p, r.runNo>> IN SelectSeq(ingestRuns, Mine)

PersistPcs == {"lookup", "create", "audit"}

\* C1: within one runIngestion call a url that several candidates carry
\* (in two feeds, or twice in one feed) gets exactly one Article and exactly
\* one INGESTED audit entry; every occurrence that is not created is
\* counted in articlesDuped.
C1_SameUrlOnce ==
  /\ UrlsUnique
  /\ \A i \in 1..Len(articles) : Cardinality(Ingested(articles[i].url)) <= 1
  /\ Cron.pc = "done" =>
       /\ \A k \in 1..Len(Cron.cands) :
            /\ Cardinality(RowsWithUrl(Cron.cands[k].url)) = 1
            /\ Cardinality(Ingested(Cron.cands[k].url)) = 1
       /\ Cron.summary[1].totalCreated = Len(Cron.inserted)
       /\ Cron.summary[1].totalCreated + Cron.summary[1].totalDuped = Len(Cron.cands)
       /\ Cron.runNo = 1 =>
            Cron.summary[1].totalCreated = Cardinality({c.url : c \in Range(Cron.cands)})

\* A first run in which Feed B repeats a url Feed A carried, and one in
\* which a feed carries a url twice.
C1_Witness ==
  /\ Cron.pc = "done"
  /\ Cron.runNo = 1
  /\ Cron.results[1].articlesCreated = 1
  /\ Cron.results[1].articlesDuped = 1
  /\ Cron.results[2].articlesDuped >= 1

\* C2: two concurrent runIngestion invocations holding the same url never
\* leave two Articles with it: the second insert is rejected by the unique
\* index, the rejected invocation goes on through its candidates and returns
\* a summary, and the url has exactly one INGESTED audit entry.
C2_ConcurrentRunsOneArticle ==
  /\ UrlsUnique
  /\ \A i \in 1..Len(articles) : Cardinality(Ingested(articles[i].url)) <= 1
  /\ \A p \in Procs :
       /\ run[p].pc \in PersistPcs \cup {"finalize", "summary"} => ENABLED RunStep(p)
       /\ run[p].pc = "done" =>
            /\ run[p].summary # <<>>
            /\ run[p].summary[1].totalCreated + run[p].summary[1].totalDuped
                 + run[p].failedRun = Len(run[p].cands)
  /\ (\A p \in Procs : run[p].pc = "done") =>
       \A i \in 1..Len(articles) : Cardinality(IngestedFor(i)) = 1

\* Both invocations returned and one of them had an insert rejected.
C2_Witness ==
  /\ \A p \in Procs : run[p].pc = "done"
  /\ \E p \in Procs : run[p].failedRun >= 1 /\ run[p].summary[1].totalCreated >= 1

\* C3: a run repeated with the same candidates, all persisted by the first
\* run, creates no Article, writes no audit entry, leaves the stored
\* Articles as they were and reports every candidate as a duplicate.
C3_RerunIdempotent ==
  (Cron.prev # <<>> /\ Cron.prev[1].failedRun = 0) =>
     /\ articles = Cron.prev[1].articles
     /\ auditLog = Cron.prev[1].auditLog
     /\ Cron.inserted = <<>>
     /\ (Cron.pc = "done" /\ Cron.cands = Cron.prev[1].cands) =>
          /\ Cron.summary[1].totalCreated = 0
          /\ Cron.summary[1].totalDuped = Cron.summary[1].totalFound
          /\ \A k \in 1..Len(Cron.results) :
               /\ Cron.results[k].articlesCreated = 0
               /\ Cron.results[k].articlesDuped = Cron.results[k].articlesFound

\* A second run that found the candidates of the first again.
C3_Witness ==
  /\ Cron.pc = "done"
  /\ Cron.prev # <<>>
  /\ Cron.cands = Cron.prev[1].cands
  /\ Cron.summary[1].totalFound >= 3
  /\ Cron.prev[1].summary.totalCreated >= 2

\* C4: the dedup key is the canonical url: candidates whose urls differ
\* only in tracking parameters or in the fragment give one Article.
C4_CanonicalDedup ==
  \A i, j \in 1..Len(articles) :
    NormalizeUrl(articles[i].url) = NormalizeUrl(articles[j].url) => i = j

\* C5: after a run, also one in which store writes failed, the Articles
\* the run inserted, its INGESTED audit entries and articlesCreated
\* correspond one to one.
C5_CreatedAuditedCounted ==
  Cron.pc = "done" =>
    /\ Cron.summary[1].totalCreated = Len(Cron.inserted)
    /\ \A k \in 1..Len(Cron.inserted) :
         /\ articles[Cron.inserted[k]].status = "QUEUED"
         /\ Cardinality(IngestedFor(Cron.inserted[k])) = 1

\* C6: a failure while persisting one candidate never aborts the batch:
\* the loop goes on with the next candidate, the counters are kept, and
\* persistArticles returns after the last candidate.
C6_FailureDoesNotAbort ==
  /\ Cron.pc \in PersistPcs =>
       /\ Cron.idx \in 1..Len(Cron.res.articles)
       /\ Cron.created + Cron.duped + Cron.failed = Cron.idx - 1
  /\ Cron.pc = "finalize" =>
       /\ Cron.idx = Len(Cron.res.articles) + 1 \/ Cron.res.articles = <<>>
       /\ Cron.created + Cron.duped + Cron.failed = Len(Cron.res.articles)
  /\ Cron.pc \in PersistPcs \cup {"finalize"} => ENABLED NextFail

\* The first candidate of a batch failed and the second is being persisted.
C6_Witness ==
  /\ Cron.pc = "audit"
  /\ Cron.failed = 1
  /\ Cron.idx = 2

\* C7: a failed feed never raises and never aborts the run: it is fetched
\* once, contributes no article and its error only to its own results
\* entry, and the other feeds and the API adapter run as they would.
C7_FeedFailureIsolated ==
  Cron.pc = "done" =>
    /\ Len(Cron.outcomes) = Len(Cron.feeds) + 1
    /\ Len(Cron.results) = Len(Cron.feeds) + (IF apiCfg = "none" THEN 0 ELSE 1)
    /\ \A k \in 1..Len(Cron.feeds) :
         LET e == Cron.results[k]
             o == Cron.outcomes[k]
         IN /\ e.source = Cron.feeds[k].name
            /\ IF o.kind # "ok"
               THEN /\ e.articlesRaw = 0 /\ e.articlesFound = 0
                    /\ e.articlesCreated = 0 /\ e.articlesDuped = 0
                    /\ Len(e.errors) = 1 /\ e.errors[1][2] = Cron.feeds[k].url
               ELSE /\ e.errors = <<>>
                    /\ e.articlesRaw = Len(o.items)
                    /\ e.articlesFound =
                         Len(ParseRssItems(o.items, Cron.feeds[k],
                                           [keywords |-> Cron.loaded,
                                            from |-> Cron.options.from,
                                            to |-> Cron.options.to]))
                    /\ e.articlesCreated + e.articlesDuped = e.articlesFound
    /\ apiCfg # "none" =>
         LET e == Cron.results[Len(Cron.results)]
             o == Cron.outcomes[Len(Cron.outcomes)]
         IN /\ e.source = "News API"
            /\ e.articlesRaw = Len(o.items)
            /\ (o.kind = "ok" => e.errors = <<>>)

\* The first feed failed; the second feed and the API adapter gave articles.
C7_Witness ==
  /\ Cron.pc = "done"
  /\ Cron.runNo = 1
  /\ Cron.outcomes[1].kind = "network"
  /\ Cron.results[2].articlesCreated = 2
  /\ Len(Cron.results) = 3
  /\ Cron.results[3].articlesCreated = 1

\* C8: a run creates one IngestRun per adapter invocation, one per enabled
\* feed and then one for the API adapter if it is configured, each
\* finalized before the next is created.
C8_OneRunPerAdapter ==
  LET mine == RunsOf("cron", Cron)
  IN /\ \A k \in 1..(Len(mine) - 1) : mine[k].finished
     /\ Cron.pc = "done" =>
          /\ \A k \in 1..Len(mine) : mine[k].finished
          /\ Len(mine) = Len(Cron.feeds) + (IF apiCfg = "none" THEN 0 ELSE 1)

CountOf(stats, term) ==
  LET Is(e) == e.term = term
      hit == SelectSeq(stats, Is)
  IN IF hit = <<>> THEN 0 ELSE hit[1].count

C10_KeywordSnapshot ==
  /\ Cron.pc \in PersistPcs \cup {"finalize"} =>
       /\ Cron.keywords = Cron.loaded
       /\ Cron.res.articles =
            IF Cron.phase = "RSS"
            THEN FetchRssFeed(Cron.feeds[Cron.feedIdx],
                              [keywords |-> Cron.loaded, from |-> Cron.options.from,
                               to |-> Cron.options.to],
                              Cron.outcomes[Len(Cron.outcomes)]).articles
            ELSE FetchFromNewsApi_Adapter(apiCfg,
                              [keywords |-> Cron.loaded, from |-> Cron.options.from,
                               to |-> Cron.options.to],
                              Cron.outcomes[Len(Cron.outcomes)]).articles
  /\ \A k \in 1..Len(Cron.inserted) :
       articles[Cron.inserted[k]].keywordsMatched =
         MatchKeywords(SearchText(articles[Cron.inserted[k]]), Cron.loaded)

\* An admin added a term after the run loaded its list; the API answered an
\* item only that term matches, and the run dropped it.
C10_Witness ==
  /\ Cron.pc = "finalize"
  /\ Cron.phase = "API"
  /\ AdminTerm \in Range(EnabledTerms(keywordRows))
  /\ AdminTerm \notin Range(Cron.loaded)
  /\ Cron.res.rawFetched = 1
  /\ Cron.res.articles = <<>>
  /\ Cron.outcomes[Len(Cron.outcomes)].items[1].title = AdminTerm

\* C11: when a store operation of getTrackedKeywords raises, the call does
\* not raise: it returns DEFAULT_KEYWORDS, and runIngestion goes through
\* every adapter with that list and returns its summary.
C11_KeywordFallback ==
  Cron.kwDown =>
    /\ Cron.pc \in {"createRun", "fetch", "lookup", "create", "audit", "finalize",
                    "summary", "done"}
    /\ Cron.keywords = DEFAULT_KEYWORDS
    /\ Cron.feeds = LoadFeedConfigs(feedFile)
    /\ Cron.pc \in PersistPcs \cup {"finalize", "summary"} => ENABLED RunStep("cron")
    /\ Cron.pc = "done" =>
         /\ Cron.summary # <<>>
         /\ Len(Cron.outcomes) = Len(Cron.feeds) + 1
         /\ \A k \in 1..Len(Cron.cands) :
              MatchKeywords(SearchText(Cron.cands[k]), DEFAULT_KEYWORDS) # <<>>
         /\ \A k \in 1..Len(Cron.inserted) :
              articles[Cron.inserted[k]].keywordsMatched =
                MatchKeywords(SearchText(articles[Cron.inserted[k]]), DEFAULT_KEYWORDS)

\* The store went down while it held a disabled default term; the run
\* still created an Article matching that term.
C11_Witness ==
  /\ Cron.pc = "done"
  /\ Cron.kwDown
  /\ \E i \in 1..Len(keywordRows) :
       keywordRows[i].term = DEFAULT_KEYWORDS[1] /\ ~keywordRows[i].enabled
  /\ \E k \in 1..Len(Cron.inserted) :
       DEFAULT_KEYWORDS[1] \in Range(articles[Cron.inserted[k]].keywordsMatched)

\* The UrlMetadata values the last request obtained from fetchUrlMetadata
\* (none when it made no call, or when the call raised).
LastResults ==
  IF last.kind \in {"urlPost", "fetchUrlMetadata"}
  THEN IF last.meta # Nothing /\ last.meta[1].kind = "value" THEN {last.meta[1]} ELSE {}
  ELSE {}

\* The body the last call of fetchUrlMetadata accumulated.
LastBodies ==
  IF last.kind \in {"urlPost", "fetchUrlMetadata"}
  THEN IF last.body # Nothing THEN {last.body[1]} ELSE {}
  ELSE {}

\* The audit entries of the single-URL path.
UrlIngested == {i \in 1..Len(auditLog) : auditLog[i].action = "URL_INGESTED"}

\* C12: every fetchUrlMetadata result with isPaywalled = true has snippet
\* null, whether or not the page carried a description, and every Article
\* the single-URL path persisted from a paywalled result has snippet null.
C12_PaywalledSnippetNull ==
  /\ \A m \in LastResults : m.isPaywalled => m.snippet = <<>>
  /\ \A i \in UrlIngested :
       auditLog[i].details.isPaywalled => articles[auditLog[i].articleId].snippet = <<>>

\* A gated page that carries an og:description was fetched by the
\* single-URL path, and its Article was stored without a snippet.
C12_Witness ==
  /\ last.kind = "urlPost"
  /\ last.status = 201
  /\ \E m \in LastResults, b \in LastBodies :
       /\ m.isPaywalled
       /\ FindMeta(b.html, "og:description") # <<>>
       /\ m.snippet = <<>>
  /\ articles[last.articleId[1]].snippet = <<>>
  /\ articles[last.articleId[1]].status = "NEEDS_MANUAL"

\* The fetch-from-url request just answered created an Article of that status.
UrlPostCreated(status) ==
  /\ last.status = 201
  /\ last.articleId # Nothing
  /\ articles[last.articleId[1]].status = status
  /\ articles[last.articleId[1]].ingestSource = "URL"

\* C13: the status decision of POST fetch-from-url over every result of
\* fetchUrlMetadata: a paywalled result is accepted and its Article is
\* NEEDS_MANUAL; a result that is not paywalled, has a fetchError and no
\* title is rejected and no Article is created; every other result makes
\* a QUEUED Article.
C13_StatusDecision ==
  last.kind = "urlPost" =>
    \A m \in LastResults :
      IF m.isPaywalled THEN UrlPostCreated("NEEDS_MANUAL")
      ELSE IF m.fetchError # Nothing /\ m.title = <<>>
      THEN last.status # 201 /\ last.articleId = Nothing
      ELSE UrlPostCreated("QUEUED")

\* The last request called fetchUrlMetadata.
CalledFetch == last.kind \in {"urlPost", "fetchUrlMetadata"} /\ last.meta # Nothing

\* C14: fetchUrlMetadata never throws: for every input string and every
\* server behaviour (no URL, network error, timeout, content type that is
\* not HTML, oversized body, JSON-LD with a @type that is no string) it
\* returns a UrlMetadata value, with fetchError set on every failure path
\* (the paths on which no body was read).
C14_NeverThrows ==
  CalledFetch =>
    /\ last.meta[1].kind = "value"
    /\ last.body = Nothing => last.meta[1].fetchError # Nothing

\* C15: in every UrlMetadata value fetchUrlMetadata returns, exactly one of
\* (fetchError != null) and (title != null) holds.
C15_ErrorXorTitle ==
  \A m \in LastResults : (m.fetchError # Nothing) # (m.title # <<>>)

\* C16: the body is read under a hard cap of MAX_RESPONSE_BYTES: the bytes
\* accumulated and parsed never exceed the cap, no chunk is read after the
\* cap is reached, and reaching the cap gives a result with fetchError null
\* built from the accumulated bytes.
C16_HardCap ==
  CalledFetch =>
    \A b \in LastBodies :
      /\ b.totalBytes <= MAX_RESPONSE_BYTES
      /\ Len(b.html) <= MAX_RESPONSE_BYTES
      /\ b.totalBytes - b.lastChunk < MAX_RESPONSE_BYTES
      /\ b.totalBytes >= MAX_RESPONSE_BYTES =>
           /\ last.meta[1].kind = "value"
           /\ last.meta[1].fetchError = Nothing

\* C17: no response of the public article API (the list and the single
\* Article, both without a session) contains an Article whose status is
\* not APPROVED, after any ingestion, url fetch, manual entry, edit,
\* approve or reject.
C17_PublicOnlyApproved ==
  last.kind \in {"publicList", "publicGet"} =>
    \A i \in 1..Len(last.items) : last.items[i].status = "APPROVED"

\* The step is an authenticated approve request on a stored Article.
ApproveStepOn(id) ==
  /\ adminOps' = adminOps + 1
  /\ last'.kind = "approve"
  /\ last'.session # Nothing
  /\ last'.id = id

\* C18: an approve request on an Article in status REJECTED is refused: the
\* status stays REJECTED and no APPROVED audit entry is written.
C18_RejectedNotApproved ==
  [][\A id \in 1..Len(articles) :
       (ApproveStepOn(id) /\ articles[id].status = "REJECTED") =>
          /\ last'.status # 200
          /\ articles'[id].status = "REJECTED"
          /\ auditLog' = auditLog]_vars

\* C19: an approve request on a NEEDS_MANUAL Article without manualSummary
\* is refused with an error, changes no field of any Article and writes no
\* audit entry; with a manualSummary present the same request sets the
\* status APPROVED and writes one APPROVED audit entry.
C19_ManualSummaryRequired ==
  [][\A id \in 1..Len(articles) :
       (ApproveStepOn(id) /\ articles[id].status = "NEEDS_MANUAL") =>
          IF NoSummary(articles[id].manualSummary)
          THEN /\ last'.status = 422
               /\ articles' = articles
               /\ auditLog' = auditLog
          ELSE /\ last'.status = 200
               /\ articles' = [articles EXCEPT ![id].status = "APPROVED"]
               /\ auditLog' = Append(auditLog,
                    AuditEntry(id, "APPROVED", last'.session[1],
                               [previousStatus |-> "NEEDS_MANUAL"]))]_vars

\* An approve of a NEEDS_MANUAL Article without manualSummary was refused,
\* after an earlier edit gave it only markup as a summary.
C19_Witness ==
  /\ last.kind = "approve"
  /\ last.session # Nothing
  /\ last.status = 422
  /\ last.id <= Len(articles)
  /\ articles[last.id].status = "NEEDS_MANUAL"
  /\ articles[last.id].manualSummary = Some(<<>>)
  /\ \A i \in 1..Len(auditLog) :
       auditLog[i].articleId = last.id => auditLog[i].action # "APPROVED"

\* The calls of one identifier that succeeded at a time in from..(to - 1).
SucceededWithin(id, from, to) ==
  {j \in 1..Len(callLog) :
     callLog[j].id = id /\ callLog[j].success /\ callLog[j].at >= from /\ callLog[j].at < to}

\* C20: for every identifier at most limit calls of rateLimit succeed
\* within any period of length windowMs, and a refused call changes
\* neither the count nor the resetAt stored for the identifier.
C20_AtMostLimitPerWindow ==
  /\ \A i \in 1..Len(callLog), t \in 0..MaxClock :
       Cardinality(SucceededWithin(callLog[i].id, t, t + RATE_WINDOW_MS)) <= callLog[i].limit
  /\ \A i \in 1..Len(callLog) : ~callLog[i].success => callLog[i].after = callLog[i].before

\* The patterns of a list (each pattern a token) that match the page.
PatternHits(html, patterns) == Cardinality({t \in patterns : \E i \in 1..Len(html) : html[i] = t})

\* C21: detectPaywall returns true for every html when the status is 401
\* or 403; otherwise it returns true exactly when at least one structural
\* pattern matches or at least two textual patterns match, so one textual
\* hit without a structural marker is not flagged.
C21_PaywallRule ==
  last.kind = "detectPaywall" =>
    last.result =
      \/ last.statusCode \in {401, 403}
      \/ PatternHits(last.html, {"paywallClass"}) >= 1
      \/ PatternHits(last.html, {"subscribersOnly", "alreadySubscriber"}) >= 2

\* A page with one textual pattern (even repeated) and no structural marker
\* was judged at status 200 and not flagged.
C21_Witness ==
  /\ last.kind = "detectPaywall"
  /\ last.statusCode = 200
  /\ PatternHits(last.html, {"subscribersOnly", "alreadySubscriber"}) = 1
  /\ Len(last.html) >= 2 /\ last.html[1] = last.html[2]
  /\ PatternHits(last.html, {"paywallClass"}) = 0
  /\ last.result = FALSE

\* The four title sources of a page, in the order of precedence, each null
\* or a string.
TitleSources(html) ==
  LET jsonLd == FindArticleJsonLd(ParseJsonLdBlocks(html))
  IN << IF jsonLd.v = Nothing THEN Nothing ELSE Some(jsonLd.v[1].headline),
        FindMeta(html, "og:title"), FindMeta(html, "twitter:title"), ParseTitle(html) >>

\* The first source that is neither null, empty nor blank, trimmed; null
\* when there is none.
RECURSIVE FirstNonEmpty(_)
FirstNonEmpty(sources) ==
  IF sources = <<>> THEN <<>>
  ELSE IF Head(sources) # Nothing /\ Trim(Head(sources)[1]) # <<>>
  THEN Trim(Head(sources)[1])
  ELSE FirstNonEmpty(Tail(sources))

\* C22: on the success path the title is the first non-empty value among
\* JSON-LD headline, og:title, twitter:title and <title>, in this order,
\* and null only when all four are absent or empty: an empty or blank
\* source of higher priority never hides a non-empty one of lower priority.
C22_TitlePrecedence ==
  last.kind = "parseMetadata" =>
    last.result.title = FirstNonEmpty(TitleSources(last.html))

\* The date lies in the window, both bounds inclusive, where specified.
InWindow(date, options) ==
  /\ date # BadDate
  /\ options.from # Nothing => date >= options.from[1]
  /\ options.to # Nothing => date <= options.to[1]

\* C23: every candidate an adapter returns (RSS, or the API adapter for
\* either provider) has a non-empty title and url, a publishedAt inside
\* the window for each bound that is specified, and matches a keyword of
\* the full list over title and snippet; an item that fails one of these
\* is dropped.
C23_CandidatesValid ==
  last.kind \in {"rssAdapter", "apiAdapter"} =>
    /\ \A k \in 1..Len(last.result) :
         /\ last.result[k].title # <<>>
         /\ last.result[k].url # <<>>
         /\ InWindow(last.result[k].publishedAt, last.options)
         /\ MatchKeywords(SearchText(last.result[k]), last.options.keywords) # <<>>
    /\ ( \/ SanitizeText(last.item.title) = <<>>
         \/ last.url = <<>>
         \/ ~InWindow(last.date, last.options)
         \/ MatchKeywords(SanitizeText(last.item.title) \o <<" ">> \o
                          SanitizeAndTruncate(last.item.description, SnippetMax),
                          last.options.keywords) = <<>> ) => last.result = <<>>

\* A feed item dated exactly at the upper bound of the window was kept.
C23_Witness ==
  /\ last.kind = "rssAdapter"
  /\ last.options.to # Nothing
  /\ Len(last.result) = 1
  /\ last.result[1].publishedAt = last.options.to[1]

\* The length of the quoted phrases joined by " OR ".
RECURSIVE QueryLength(_)
QueryLength(parts) ==
  IF parts = <<>> THEN 0
  ELSE Len(Head(parts)) + 2 + (IF Len(parts) > 1 THEN 4 ELSE 0) + QueryLength(Tail(parts))

\* C24: buildOrQuery includes the longest prefix of the keyword list whose
\* quoted phrases joined by " OR " fit the budget: the query is never
\* longer than the budget, the included keywords are keywords[0..included-1],
\* the first keyword that does not fit and all after it are left out
\* without error, and the adapter still filters with the full list.
C24_LongestPrefixInBudget ==
  /\ last.kind = "buildOrQuery" =>
       LET q == last.result
           Fits(k) == QueryLength(SubSeq(last.keywords, 1, k)) <= last.budgetChars
       IN /\ QueryLength(q.query) <= last.budgetChars
          /\ q.included \in 0..Len(last.keywords)
          /\ q.query = SubSeq(last.keywords, 1, q.included)
          /\ \A k \in 0..Len(last.keywords) : Fits(k) => k <= q.included
  /\ last.kind = "apiOverBudget" =>
       /\ last.query.included < Len(last.options.keywords)
       /\ last.result.error = Nothing
       /\ ( /\ last.item.title # Removed
            /\ SanitizeText(last.item.title) # <<>>
            /\ last.item.url = UrlA
            /\ last.item.publishedAt # BadDate
            /\ MatchKeywords(SanitizeText(last.item.title) \o <<" ">> \o
                             SanitizeAndTruncate(last.item.description, SnippetMax),
                             last.options.keywords) # <<>> )
          => Len(last.result.articles) = 1

\* The second of three keywords did not fit: one keyword is in the query
\* and two are left out.
C24_Witness ==
  /\ last.kind = "buildOrQuery"
  /\ Len(last.keywords) = 3
  /\ last.result.included = 1
  /\ QueryLength(SubSeq(last.keywords, 1, 2)) > last.budgetChars
  /\ QueryLength(<<last.keywords[1], last.keywords[3]>>) <= last.budgetChars

\* The query parameters of a url, in order: the lexemes between the first
\* "?" and the fragment, without the separators.
QueryParamsOf(url) ==
  LET noHash == SubSeq(url, 1, FirstIndex(url, "#") - 1)
      search == SubSeq(noHash, FirstIndex(noHash, "?") + 1, Len(noHash))
      IsParam(l) == l \notin {"&", "?"}
  IN SelectSeq(search, IsParam)

\* C25: normalizeUrl is idempotent; for a parseable url the result has no
\* fragment and no query parameter whose lower-cased key is on the
\* deny-list, every other parameter is preserved (in order), and a string
\* that is no url is returned unchanged.
C25_NormalizeUrl ==
  last.kind = "normalizeUrl" =>
    /\ last.again = last.result
    /\ IF IsParseableUrl(last.rawUrl)
       THEN LET NotTracked(l) == ParamKeyLower(l) \notin TRACKING_PARAMS
            IN /\ \A i \in 1..Len(last.result) : last.result[i] # "#"
               /\ \A i \in 1..Len(last.result) :
                    ParamKeyLower(last.result[i]) \notin TRACKING_PARAMS
               /\ QueryParamsOf(last.result) =
                    SelectSeq(QueryParamsOf(last.rawUrl), NotTracked)
       ELSE last.result = last.rawUrl

\* A url with a tracking parameter in upper case, another parameter and a
\* fragment was normalized to the url with the other parameter alone.
C25_Witness ==
  /\ last.kind = "normalizeUrl"
  /\ last.rawUrl = <<"https://ex.com/a", "?", "UTM_Medium=y", "&", "id=5", "#", "top">>
  /\ last.result = <<"https://ex.com/a", "?", "id=5">>

\* C26: the output of sanitizeText never contains a "<" or a ">", whatever
\* the input (unclosed tags and entity-encoded angle brackets included).
C26_NoAngleBrackets ==
  last.kind = "sanitizeText" =>
    \A i \in 1..Len(last.result) : last.result[i] \notin {"<", ">"}

\* C27: one invocation of the image refresh attempts at most MAX_ARTICLES
\* Articles, each once, only Articles whose imageUrl was null, with at least
\* INTER_REQ_DELAY between successive fetches; when it answers 200,
\* total = updated + failed; it wrote an imageUrl only on Articles it
\* fetched and found an image for, and every other Article is as it was
\* (so one without image is still selected by the next invocation's query).
C27_BoundedRefresh ==
  last.kind = "refreshImages" =>
    LET ids == {last.fetched[k].id : k \in 1..Len(last.fetched)}
    IN /\ Len(last.fetched) <= MAX_ARTICLES
       /\ \A k \in 1..Len(last.fetched) :
            /\ last.before[last.fetched[k].id].imageUrl = Nothing
            /\ \A m \in 1..Len(last.fetched) :
                 m # k => last.fetched[m].id # last.fetched[k].id
            /\ k > 1 => last.fetched[k].at >= last.fetched[k - 1].at + INTER_REQ_DELAY
       /\ (last.phase = "done" /\ last.status = 200) =>
            /\ last.total = last.updated + last.failed
            /\ last.updated = Cardinality(last.written)
            /\ Len(last.fetched) = last.total
       /\ last.written \subseteq ids
       /\ \A id \in 1..Len(articles) :
            IF id \in last.written
            THEN /\ articles[id].imageUrl # Nothing
                 /\ articles[id] = [last.before[id] EXCEPT !.imageUrl = articles[id].imageUrl]
            ELSE articles[id] = last.before[id]
       /\ Len(articles) = Len(last.before)
       /\ \A id \in 1..Len(articles) :
            (last.before[id].imageUrl = Nothing /\ id \notin last.written)
              => articles[id].imageUrl = Nothing

\* An invocation over three Articles without image finished: it fetched
\* two, found an image for one, and the third was beyond the batch.
C27_Witness ==
  /\ last.kind = "refreshImages" /\ last.phase = "done" /\ last.status = 200
  /\ \A id \in 1..Len(last.before) : last.before[id].imageUrl = Nothing
  /\ last.total = MAX_ARTICLES /\ last.updated = 1 /\ last.failed = 1
  /\ \E id \in 1..Len(articles) :
       id \notin {last.fetched[k].id : k \in 1..Len(last.fetched)}
       /\ articles[id].imageUrl = Nothing

\* C28: under every interleaving of fetch-from-url requests for one
\* normalized url, at most one Article with that url and at most one
\* URL_INGESTED entry for it exist, at most one request answers 201 (none
\* when the url was stored before), and every other admitted request
\* answers 409 with the id of the existing Article.
C28_OneCreates ==
  LET done     == {p \in Requests : run[p].pc = "done" /\ run[p].status \notin {401, 429}}
      creators == {p \in done : run[p].status = 201}
      rows     == {i \in 1..Len(articles) : articles[i].url = UrlA}
      entries  == {i \in 1..Len(auditLog) : auditLog[i].action = "URL_INGESTED"}
  IN /\ Cardinality(rows) <= 1
     /\ Cardinality(entries) = Cardinality(rows)
     /\ Cardinality(creators) <= 1
     /\ \A p \in done \ creators :
          /\ run[p].status = 409
          /\ run[p].existingId # Nothing
          /\ run[p].existingId[1] \in rows

\* C29: for every adapter invocation of a run, articlesCreated +
\* articlesDuped <= articlesFound, in the IngestRun row and in the results
\* entry, with equality exactly when no candidate of that invocation hit a
\* persistence failure; hence totalCreated + totalDuped <= totalFound in
\* the summary.
C29_CountsWithinFound ==
  /\ \A i \in 1..Len(ingestRuns) :
       ingestRuns[i].finished =>
         ingestRuns[i].articlesCreated + ingestRuns[i].articlesDuped
           <= ingestRuns[i].articlesFound
  /\ \A k \in 1..Len(Cron.results) :
       Cron.results[k].articlesCreated + Cron.results[k].articlesDuped
         <= Cron.results[k].articlesFound
  /\ Cron.pc = "finalize" =>
       /\ FinalizedRun(ingestRuns[Cron.runId], Cron).articlesFound = Len(Cron.res.articles)
       /\ (Cron.created + Cron.duped = Len(Cron.res.articles)) <=> (Cron.failed = 0)
  /\ Cron.pc = "done" =>
       /\ Cron.summary[1].totalCreated + Cron.summary[1].totalDuped
            <= Cron.summary[1].totalFound
       /\ (Cron.summary[1].totalCreated + Cron.summary[1].totalDuped
            = Cron.summary[1].totalFound) <=> (Cron.failedRun = 0)

\* A run returned in which one adapter invocation lost a candidate to a
\* failure and another persisted all of its candidates.
C29_Witness ==
  /\ Cron.pc = "done"
  /\ Cron.failedRun = 1
  /\ \E k \in 1..Len(Cron.results) :
       /\ Cron.results[k].articlesFound >= 2
       /\ Cron.results[k].articlesCreated + Cron.results[k].articlesDuped
            = Cron.results[k].articlesFound - 1
  /\ \E k \in 1..Len(Cron.results) :
       /\ Cron.results[k].articlesFound >= 1
       /\ Cron.results[k].articlesCreated + Cron.results[k].articlesDuped
            = Cron.results[k].articlesFound

\* C30: a term an admin disabled or deleted, and has not enabled or created
\* again, is returned by no later getTrackedKeywords call that reached the
\* store; and the sync of the defaults leaves the term and the enabled flag
\* of every existing row as they were.
C30_RemovalsPersist ==
  /\ last.kind = "getTrackedKeywords" =>
       \A t \in last.hidden : t \notin Range(last.result)
  /\ last.kind \in {"getTrackedKeywords", "list"} =>
       /\ Len(last.after) >= Len(last.before)
       /\ SubSeq(last.after, 1, Len(last.before)) = last.before

====
